---------------------------- MODULE Spec2Model ----------------------------
(* Model of the Sequencing Data Manager:                                   *)
(*   the portable scanner  src/portable_seqmanager3/app/backend/scanner.py *)
(*   its FastAPI job       src/portable_seqmanager3/app/backend/main.py    *)
(*   the legacy scanner    src/code/file_scanner.py                        *)
(*   its Flask application src/code/app.py                                 *)
(* A file's content is a sequence of byte values (0..255).  A path is a    *)
(* natural number; the order of the numbers stands for the lexicographic   *)
(* order of the path strings.  Digests are modelled collision free: a      *)
(* digest is the tagged sequence of the bytes that were fed to the hash.   *)
(* A file name is the sequence of the character codes of the last         *)
(* component of the path.                                                *)
EXTENDS Integers, Sequences, FiniteSets, TLC

(* ------------------------------------------------------------------ *)
(* Bounds of the model                                                  *)
(* ------------------------------------------------------------------ *)

\* Size of one sampled window.  The source reads windows of 65536 bytes
\* (scanner.py:156-163); the model scales the window down and keeps every
\* other quantity of sampled_fingerprint expressed in windows.
Window == 1

\* At most this many I/O calls (stat, open, read) fail during one scan.
MaxFailures == 2

(* ------------------------------------------------------------------ *)
(* Byte helpers                                                         *)
(* ------------------------------------------------------------------ *)

Min(a, b) == IF a <= b THEN a ELSE b

Max(a, b) == IF a >= b THEN a ELSE b

\* f.seek(off); f.read(n): at most n bytes from offset off (0-based).
ReadAt(bytes, off, n) == SubSeq(bytes, off + 1, Min(off + n, Len(bytes)))

\* bytes[:n]
Prefix(bytes, n) == SubSeq(bytes, 1, Min(n, Len(bytes)))

\* bytes.startswith(magic), which is also bytes[:len(magic)] == magic
StartsWith(bytes, magic) == Prefix(bytes, Len(magic)) = magic

\* magic in bytes
Contains(bytes, magic) ==
    \E i \in 0..(Len(bytes) - Len(magic)) :
        SubSeq(bytes, i + 1, i + Len(magic)) = magic

MagicGzip == <<31, 139, 8>>

MagicBam == <<66, 65, 77, 1>>

MagicCram == <<67, 82, 65, 77>>

MagicBcf == <<66, 67, 70>>

MagicVcf == <<35, 35, 102, 105, 108, 101, 102, 111, 114, 109, 97, 116, 61, 86, 67, 70>>

MagicSamHd == <<64, 72, 68, 9>>

MagicAt == <<64>>

MagicGt == <<62>>

\* f.read(1024)
SniffRead == 1024

\* head[:256]
VcfScan == 256

(* ------------------------------------------------------------------ *)
(* sniff_header                                                         *)
(* ------------------------------------------------------------------ *)

\* A sniffer with the FASTQ test placed before the SAM test.
sniff_header_fastq_first(p, bytes, open_ok) ==
    IF ~open_ok THEN "UNKNOWN"
    ELSE LET head == ReadAt(bytes, 0, SniffRead) IN
         IF Len(head) >= 3 /\ head[1] = 31 /\ head[2] = 139 /\ head[3] = 8
            THEN "GZIP"
         ELSE IF Prefix(head, 4) = MagicBam THEN "BAM"
         ELSE IF Prefix(head, 4) = MagicCram THEN "CRAM"
         ELSE IF Prefix(head, 3) = MagicBcf THEN "BCF"
         ELSE IF Contains(Prefix(head, VcfScan), MagicVcf) THEN "VCF"
         ELSE IF Prefix(head, 1) = MagicAt THEN "FASTQ"
         ELSE IF StartsWith(head, MagicSamHd) THEN "SAM"
         ELSE IF Prefix(head, 1) = MagicGt THEN "FASTA"
         ELSE "UNKNOWN"

\* sniff_header(p): p is the path, bytes the content of the file at p, and
\* open_ok is FALSE when p.open or f.read raises.
sniff_header(p, bytes, open_ok) ==
    IF ~open_ok THEN "UNKNOWN"
    ELSE LET head == ReadAt(bytes, 0, SniffRead) IN
         IF Len(head) >= 3 /\ head[1] = 31 /\ head[2] = 139 /\ head[3] = 8
            THEN "GZIP"
         ELSE IF Prefix(head, 4) = MagicBam THEN "BAM"
         ELSE IF Prefix(head, 4) = MagicCram THEN "CRAM"
         ELSE IF Prefix(head, 3) = MagicBcf THEN "BCF"
         ELSE IF Contains(Prefix(head, VcfScan), MagicVcf) THEN "VCF"
         ELSE IF StartsWith(head, MagicSamHd) THEN "SAM"
         ELSE IF Prefix(head, 1) = MagicAt THEN "FASTQ"
         ELSE IF Prefix(head, 1) = MagicGt THEN "FASTA"
         ELSE "UNKNOWN"

(* ------------------------------------------------------------------ *)
(* Fingerprints                                                         *)
(* ------------------------------------------------------------------ *)

\* hashlib.md5 over the concatenation of the updates, collision free.
Md5(fed) == <<"md5", fed>>

\* hashlib.new("sha256") over the concatenation of the updates.
Sha256(fed) == <<"sha256", fed>>

\* sampled_fingerprint(p) of a file holding bytes: head window, middle
\* window when S >= 3 windows, tail window when S >= 1 window.
sampled_fingerprint(bytes) ==
    LET S == Len(bytes)
        head == ReadAt(bytes, 0, Window)
        mid == IF S >= 3 * Window
               THEN ReadAt(bytes, Max(0, (S \div 2) - (Window \div 2)), Window)
               ELSE <<>>
        tail == IF S >= Window
                THEN ReadAt(bytes, Max(0, S - Window), Window)
                ELSE <<>>
    IN Md5(head \o mid \o tail)

\* The read loop of stream_hash: chunks of `chunk` bytes until an empty read.
RECURSIVE StreamChunks(_, _, _)
StreamChunks(bytes, off, chunk) ==
    LET c == ReadAt(bytes, off, chunk) IN
    IF c = <<>> THEN <<>> ELSE c \o StreamChunks(bytes, off + Len(c), chunk)

\* self.chunk, in windows: 4 MiB is 64 windows of 64 KiB.
ChunkWindows == 64

\* stream_hash(p, "sha256") of a file holding bytes.
stream_hash(bytes) == Sha256(StreamChunks(bytes, 0, ChunkWindows * Window))


(* ------------------------------------------------------------------ *)
(* Dictionaries and sorting                                             *)
(* ------------------------------------------------------------------ *)

\* A Python dict is a sequence of [k, v] entries in insertion order.
\* d.setdefault(k, []).append(x)
DictAppend(d, k, x) ==
    IF \E i \in 1..Len(d) : d[i].k = k
    THEN [i \in 1..Len(d) |->
            IF d[i].k = k THEN [k |-> k, v |-> Append(d[i].v, x)] ELSE d[i]]
    ELSE Append(d, [k |-> k, v |-> <<x>>])

\* The members of the entries of d that hold at least two, in the order in
\* which the loops `for k, group in d.items(): if len(group) < 2: continue;
\* for m in group:` visit them.
RECURSIVE MembersOfBig(_)
MembersOfBig(d) ==
    IF d = <<>> THEN <<>>
    ELSE (IF Len(Head(d).v) < 2 THEN <<>> ELSE Head(d).v) \o MembersOfBig(Tail(d))

\* sorted(xs) of a list of paths: ascending, duplicates kept.
RECURSIVE SortedPaths(_)
SortedPaths(xs) ==
    IF xs = <<>> THEN <<>>
    ELSE LET rest == SortedPaths(Tail(xs))
             x == Head(xs)
             n == Cardinality({i \in 1..Len(rest) : rest[i] <= x})
         IN SubSeq(rest, 1, n) \o <<x>> \o SubSeq(rest, n + 1, Len(rest))

\* A sort key that holds total_size only.
KeyLessTotalOnly(a, b) == a.total_size < b.total_size

\* The sort key of dup_out: (total_size, count), compared as tuples.
KeyLess(a, b) ==
    \/ a.total_size < b.total_size
    \/ a.total_size = b.total_size /\ a.count < b.count

\* list.sort(key=..., reverse=True): descending by key, and stable, so that
\* entries with equal keys keep the order they had in the list.
RECURSIVE SortDupOut(_)
SortDupOut(xs) ==
    IF xs = <<>> THEN <<>>
    ELSE LET rest == SortDupOut(Tail(xs))
             x == Head(xs)
             n == Cardinality({i \in 1..Len(rest) : KeyLess(x, rest[i])})
         IN SubSeq(rest, 1, n) \o <<x>> \o SubSeq(rest, n + 1, Len(rest))

(* ------------------------------------------------------------------ *)
(* File names                                                           *)
(* ------------------------------------------------------------------ *)

\* A file name (the last component of a path) and every string derived from
\* it is a sequence of character codes.

\* s.lower()
Lower(s) == [i \in 1..Len(s) |-> IF s[i] >= 65 /\ s[i] <= 90 THEN s[i] + 32 ELSE s[i]]

\* s.upper()
Upper(s) == [i \in 1..Len(s) |-> IF s[i] >= 97 /\ s[i] <= 122 THEN s[i] - 32 ELSE s[i]]

\* s.endswith(t)
EndsWith(s, t) ==
    Len(s) >= Len(t) /\ SubSeq(s, Len(s) - Len(t) + 1, Len(s)) = t

ChDot == 46

ChDash == 45

ChUnderscore == 95

\* The pieces of s between the characters of seps, empty pieces included:
\* s.split(".") for seps = {"."}.
RECURSIVE SplitFrom(_, _, _)
SplitFrom(s, seps, cur) ==
    IF s = <<>> THEN <<cur>>
    ELSE IF Head(s) \in seps THEN <<cur>> \o SplitFrom(Tail(s), seps, <<>>)
    ELSE SplitFrom(Tail(s), seps, Append(cur, Head(s)))

Split(s, seps) == SplitFrom(s, seps, <<>>)

\* sep.join(parts)
RECURSIVE Join(_, _)
Join(parts, sep) ==
    IF parts = <<>> THEN <<>>
    ELSE IF Len(parts) = 1 THEN parts[1]
    ELSE parts[1] \o sep \o Join(Tail(parts), sep)

\* s.lstrip(".")
RECURSIVE LStripDots(_)
LStripDots(s) ==
    IF s # <<>> /\ Head(s) = ChDot THEN LStripDots(Tail(s)) ELSE s

\* p.suffixes of pathlib, each suffix with its leading period: none for a
\* name that ends with a period; else the pieces after the first period of
\* the name without its leading periods.
Suffixes(name) ==
    IF name # <<>> /\ name[Len(name)] = ChDot THEN <<>>
    ELSE LET pieces == Split(LStripDots(name), {ChDot}) IN
         [i \in 1..(Len(pieces) - 1) |-> <<ChDot>> \o pieces[i + 1]]

StrGz == <<103, 122>>

StrGzip == <<103, 122, 105, 112>>

StrBgz == <<98, 103, 122>>

StrBgzf == <<98, 103, 122, 102>>

StrBam == <<98, 97, 109>>

StrCram == <<99, 114, 97, 109>>

StrBcf == <<98, 99, 102>>

StrVcf == <<118, 99, 102>>

StrSam == <<115, 97, 109>>

StrFastq == <<102, 97, 115, 116, 113>>

StrFq == <<102, 113>>

StrFasta == <<102, 97, 115, 116, 97>>

StrFa == <<102, 97>>

StrSRA == <<83, 82, 65>>

StrTrimmed == <<116, 114, 105, 109, 109, 101, 100>>

StrManifestJson == <<46, 109, 97, 110, 105, 102, 101, 115, 116, 46, 106, 115, 111, 110>>

\* logical_map.get(s): the logical type an extension names, "" for none.
LogicalMap(s) ==
    IF s = StrBam THEN "BAM"
    ELSE IF s = StrCram THEN "CRAM"
    ELSE IF s = StrBcf THEN "BCF"
    ELSE IF s = StrVcf THEN "VCF"
    ELSE IF s = StrSam THEN "SAM"
    ELSE IF s \in {StrFastq, StrFq} THEN "FASTQ"
    ELSE IF s \in {StrFasta, StrFa} THEN "FASTA"
    ELSE ""

\* _norm_container(s)
norm_container(s) ==
    IF s \in {"GZ", "GZIP"} THEN "GZIP"
    ELSE IF s \in {"BGZ", "BGZF"} THEN "BGZF"
    ELSE s

\* _normalize_extensions(p), for the name of p
normalize_extensions(name) ==
    LET sfx == Suffixes(name)
        suffixes == [i \in 1..Len(sfx) |-> Lower(LStripDots(sfx[i]))]
        last == suffixes[Len(suffixes)]
        container == IF suffixes = <<>> THEN ""
                     ELSE IF last \in {StrGz, StrGzip} THEN "GZIP"
                     ELSE IF last \in {StrBgz, StrBgzf} THEN "BGZF"
                     ELSE ""
        logical0 == IF suffixes # <<>> /\ container = "" THEN LogicalMap(last) ELSE ""
        logical == IF container # "" /\ Len(suffixes) >= 2
                   THEN LogicalMap(suffixes[Len(suffixes) - 1])
                   ELSE logical0
    IN [ext_full |-> Join(suffixes, <<ChDot>>),
        ext_container |-> norm_container(container),
        ext_logical |-> logical]

\* The words _TOKEN_RE matches: r1 r2 read1 read2 paired unpaired trimmed
\* sorted unsorted collated
Tokens ==
    { <<114, 49>>, <<114, 50>>,
      <<114, 101, 97, 100, 49>>, <<114, 101, 97, 100, 50>>,
      <<112, 97, 105, 114, 101, 100>>,
      <<117, 110, 112, 97, 105, 114, 101, 100>>,
      StrTrimmed,
      <<115, 111, 114, 116, 101, 100>>,
      <<117, 110, 115, 111, 114, 116, 101, 100>>,
      <<99, 111, 108, 108, 97, 116, 101, 100>> }

\* _TOKEN_RE.match(w), case-insensitive, for a word w that holds no separator
TokenMatch(w) == Lower(w) \in Tokens

\* [w for w in parts if w and not _TOKEN_RE.match(w)]
RECURSIVE KeepParts(_)
KeepParts(parts) ==
    IF parts = <<>> THEN <<>>
    ELSE (IF Head(parts) # <<>> /\ ~TokenMatch(Head(parts))
          THEN <<Head(parts)>> ELSE <<>>) \o KeepParts(Tail(parts))

\* The total length of the suffixes of a name.
RECURSIVE SumLen(_)
SumLen(xs) == IF xs = <<>> THEN 0 ELSE Len(Head(xs)) + SumLen(Tail(xs))

\* A stem that keeps the case of the letters.
base_stem_keep_case(name) ==
    LET cut == SubSeq(name, 1, Len(name) - SumLen(Suffixes(name)))
        parts == Split(cut, {ChDot, ChDash, ChUnderscore})
    IN Join(KeepParts(parts), <<ChDot>>)

\* _base_stem(p, ext_full_upper), for the name of p: the suffixes are cut off
\* the name, the rest is split at runs of . - _ (the empty pieces such a split
\* leaves at the ends are dropped with the tokens), and the kept parts are
\* joined with periods and lowercased.
base_stem(name) ==
    LET cut == SubSeq(name, 1, Len(name) - SumLen(Suffixes(name)))
        parts == Split(cut, {ChDot, ChDash, ChUnderscore})
    IN Lower(Join(KeepParts(parts), <<ChDot>>))

\* _has(m, kind)
has(m, kind) == m.header_type = kind \/ m.extension_logical = kind

\* _is_container(m, kinds)
is_container(m, kinds) == m.extension_container \in kinds

(* ------------------------------------------------------------------ *)
(* The tree that is scanned                                             *)
(* ------------------------------------------------------------------ *)

\* The regular files of a tree of the first family of trees.
MainPaths == {1, 2, 3, 4}

\* The files that lie in the root; the others lie in the subdirectory.
RootFiles == {1, 2}

\* The directories in the order os.walk yields them: the root, then its
\* one subdirectory.
DirOrder == <<1, 2>>

DirOf(p) == IF p \in RootFiles THEN 1 ELSE 2

\* The indices 1..S of the bytes that sampled_fingerprint reads of S bytes.
SampledIdx(S) ==
    LET win(off) == {i \in 1..S : off + 1 <= i /\ i <= off + Window} IN
    win(0)
    \cup (IF S >= 3 * Window THEN win(Max(0, (S \div 2) - (Window \div 2))) ELSE {})
    \cup (IF S >= Window THEN win(Max(0, S - Window)) ELSE {})

\* A file of three windows and one byte, so that one byte is in no window.
BaseLen == 3 * Window + 1

BaseBytes == [i \in 1..BaseLen |-> IF i = 1 THEN 64 ELSE 65]

UnsampledPos == CHOOSE i \in 1..BaseLen : i \notin SampledIdx(BaseLen)

\* The contents a file of the tree may hold: the base, the base with a byte
\* changed outside the windows, the base with its first byte changed, a
\* one byte file and the empty file.
Contents ==
    { BaseBytes,
      [BaseBytes EXCEPT ![UnsampledPos] = 66],
      [BaseBytes EXCEPT ![1] = 62],
      <<64>>,
      <<>> }

\* The second family of trees: five files of two or of three bytes, so that
\* three files of two bytes and two files of three bytes make two groups of
\* the same total_size and of different count.
TiePaths == {1, 2, 3, 4, 5}

TieContents == { <<64, 65>>, <<64, 65, 65>> }

\* Targets of the symbolic link of the subdirectory; 0: there is no link.
LinkTargets == {0}

(* ------------------------------------------------------------------ *)
(* Trees of named files, for the mismatches and the erasable candidates  *)
(* ------------------------------------------------------------------ *)

\* "s.sam"
NameSam == <<115, 46, 115, 97, 109>>

\* "s_sorted.sam"
NameSortedSam == <<115, 95, 115, 111, 114, 116, 101, 100, 46, 115, 97, 109>>

\* "s.bam"
NameBam == <<115, 46, 98, 97, 109>>

\* "s.bam.gz"
NameBamGz == <<115, 46, 98, 97, 109, 46, 103, 122>>

\* "s.cram"
NameCram == <<115, 46, 99, 114, 97, 109>>

\* "s.sra"
NameSra == <<115, 46, 115, 114, 97>>

\* "s_R1.fastq.gz"
NameR1FastqGz == <<115, 95, 82, 49, 46, 102, 97, 115, 116, 113, 46, 103, 122>>

\* "S-Trimmed_R1.fq"
NameTrimmedFq == <<83, 45, 84, 114, 105, 109, 109, 101, 100, 95, 82, 49, 46, 102, 113>>

\* "s.trimmed.fastq"
NameDotTrimmed == <<115, 46, 116, 114, 105, 109, 109, 101, 100, 46, 102, 97, 115, 116, 113>>

\* "s.manifest.json"
NameManifest == <<115, 46, 109, 97, 110, 105, 102, 101, 115, 116, 46, 106, 115, 111, 110>>

\* "notes.txt"
NameNotes == <<110, 111, 116, 101, 115, 46, 116, 120, 116>>

\* "s.vcf.bgz"
NameVcfBgz == <<115, 46, 118, 99, 102, 46, 98, 103, 122>>

\* "t.bam"
NameOtherBam == <<116, 46, 98, 97, 109>>

\* "s__read2.FQ"
NameRead2 == <<115, 95, 95, 114, 101, 97, 100, 50, 46, 70, 81>>

\* The names of the files of the two families of trees of the scan: path p
\* is named MainNames[p].
MainNames == <<NameSam, NameBam, NameSra, NameOtherBam, NameCram>>

\* The names a file of a tree of named files may have.
RuleNames ==
    { NameSam, NameSortedSam, NameBam, NameBamGz,
      NameCram, NameSra, NameR1FastqGz, NameTrimmedFq,
      NameDotTrimmed, NameManifest, NameNotes, NameVcfBgz,
      NameOtherBam, NameRead2 }

\* One content for every result of sniff_header.
RuleContents ==
    { MagicGzip, MagicBam, MagicCram, MagicBcf, MagicVcf, MagicSamHd,
      MagicAt, MagicGt, <<120>> }

RuleFile(name, bytes) == [name |-> name, bytes |-> bytes]

\* Every name with every content, for the trees of two files.
PairFiles == { RuleFile(n, b) : n \in RuleNames, b \in RuleContents }

\* Names with the content they announce, and names with another content,
\* for the trees of three files.
TripleFiles ==
    { RuleFile(NameSam, MagicSamHd),
      RuleFile(NameSortedSam, MagicSamHd),
      RuleFile(NameBam, MagicBam),
      RuleFile(NameBamGz, MagicGzip),
      RuleFile(NameCram, MagicCram),
      RuleFile(NameSra, <<120>>),
      RuleFile(NameR1FastqGz, MagicGzip),
      RuleFile(NameTrimmedFq, MagicAt),
      RuleFile(NameDotTrimmed, MagicAt),
      RuleFile(NameRead2, MagicAt),
      RuleFile(NameManifest, <<120>>),
      RuleFile(NameNotes, MagicGzip),
      RuleFile(NameOtherBam, MagicGt),
      RuleFile(NameBam, MagicSamHd),
      RuleFile(NameCram, MagicBam),
      RuleFile(NameSra, MagicAt) }

PairPaths == {1, 2}

TriplePaths == {1, 2, 3}

VARIABLES
    tree,        \* path -> bytes of the regular file at that path
    names,       \* path -> name of the file at that path
    include_non_bio_mismatches, \* self.include_non_bio_mismatches
    link,        \* target path of the symbolic link in the subdirectory, or 0
    cb_raises,   \* the registered callback may raise an Exception
    pc,          \* position of scan_directory
    cancel,      \* self._cancel
    dir_idx,     \* index in DirOrder of the directory the walk is in
    todo,        \* entries of that directory the inner loop has not reached
    metas,       \* metas
    scanned,     \* scanned
    total,       \* total
    work,        \* FileMeta still to hash in the running tier
    by_fp,       \* by_fp
    groups,      \* groups
    report,      \* the returned dict, "none" before the return
    events,      \* events handed to the progress callback
    nfail,       \* I/O calls that failed so far
    fail_budget, \* I/O calls the environment lets fail during the scan
    stat_failed, \* paths whose p.stat() raised in the walk
    open_failed, \* paths whose open or read raised in sniff_header
    fp_failed,   \* paths whose sampled_fingerprint raised
    sha_failed,  \* paths whose stream_hash raised
    root,        \* what the root argument resolves to
    cb,          \* self._cb is set
    sn_in,       \* input of a lone sniff_header call
    sn_out,      \* its result, "none" before the call
    \* The scanner of src/code/file_scanner.py
    legacy_tree,    \* path -> bytes of the regular file at that path
    legacy,         \* the SequencingFileScanner object (self)
    legacy_pc,      \* position of its scan_directory
    legacy_todo,    \* entries of the walk the loop has not reached
    hash_to_files,  \* hash_to_files
    legacy_events,  \* progress_data handed to the callback in this scan
    legacy_summary, \* the returned summary, "none" before the return
    legacy_scans,   \* scan_directory calls made on the object
    legacy_failed,  \* paths whose getsize or read failed in this scan
    \* The Flask application of src/code/app.py
    scan_status,    \* scan_status
    scan_results,   \* scan_results, <<>> for the empty dict
    thread_pc,      \* request -> position of the scan thread it started
    request,        \* request -> "pending" or the response to POST /api/scan
    http,           \* the last response to a GET
    completed,      \* a scan has returned and its results were stored
    \* The job of src/portable_seqmanager3/app/backend/main.py
    job_queue,      \* q, the queue of the job
    job_pc,         \* position of the thread of the job
    job_result,     \* _jobs[job_id]["result"]
    progress_sent,  \* progress events the scanner handed to progress_cb
    enqueued,       \* every item a put_nowait has put on the queue
    consumer_pc,    \* position of the consumer of the stream
    received        \* events the consumer was sent

scan_vars == <<pc, cancel, dir_idx, todo, metas, scanned, total, work, by_fp,
               groups, report, events, nfail, stat_failed, open_failed,
               fp_failed, sha_failed, root, cb>>

\* The tree and the arguments of the constructor, which no step changes.
env_vars == <<tree, names, include_non_bio_mismatches, link, fail_budget,
               cb_raises>>

\* The variables of the scanner of src/code/file_scanner.py
legacy_vars == <<legacy_tree, legacy, legacy_pc, legacy_todo, hash_to_files,
                 legacy_events, legacy_summary, legacy_scans, legacy_failed>>

\* The variables of the Flask application of src/code/app.py
flask_vars == <<scan_status, scan_results, thread_pc, request, http, completed>>

\* The variables of the job of main.py
job_vars == <<job_queue, job_pc, job_result, progress_sent, enqueued,
              consumer_pc, received>>

\* The variables of the programs other than the portable scanner.
app_vars == <<legacy_vars, flask_vars, job_vars>>

\* The variables of the portable scanner.
portable_vars == <<env_vars, scan_vars, sn_in, sn_out>>

vars == <<portable_vars, app_vars>>

\* self.scan_results and self.file_sizes have these keys, in this order.
Categories ==
    <<"raw_sequencing", "aligned_data", "intermediate_files", "final_outputs",
      "unclassified">>

CategorySet == {Categories[i] : i \in 1..Len(Categories)}

\* SequencingFileScanner() of file_scanner.py after __init__
NewLegacyScanner ==
    [scan_results |-> [c \in CategorySet |-> <<>>],
     file_sizes |-> [c \in CategorySet |-> 0],
     duplicates |-> <<>>,
     file_hashes |-> <<>>,
     progress_callback |-> FALSE,
     current_phase |-> "",
     total_files |-> 0,
     processed_files |-> 0]

\* No scanner of file_scanner.py is in use.
LegacyIdle ==
    /\ legacy_tree = <<>>
    /\ legacy = NewLegacyScanner
    /\ legacy_pc = "idle"
    /\ legacy_todo = {}
    /\ hash_to_files = <<>>
    /\ legacy_events = <<>>
    /\ legacy_summary = "none"
    /\ legacy_scans = 0
    /\ legacy_failed = {}

\* At most this many POST /api/scan requests are made.
MaxRequests == 3

Requests == 1..MaxRequests

\* The application of app.py after the import of the module: no request
\* was made.
FlaskIdle ==
    /\ scan_status = [scanning |-> FALSE, progress |-> 0, error |-> FALSE,
                      phase |-> "", total_files |-> 0, processed_files |-> 0]
    /\ scan_results = <<>>
    /\ thread_pc = [r \in Requests |-> "none"]
    /\ request = [r \in Requests |-> "pending"]
    /\ http = [endpoint |-> "none", status |-> 0, body |-> <<>>]
    /\ completed = FALSE

\* The application of main.py after the import of the module: no job was
\* started.
JobIdle ==
    /\ job_queue = <<>>
    /\ job_pc = "none"
    /\ job_result = "None"
    /\ progress_sent = 0
    /\ enqueued = <<>>
    /\ consumer_pc = "none"
    /\ received = <<>>

\* None of the other programs runs.
AppIdle == LegacyIdle /\ FlaskIdle /\ JobIdle

\* The regular files of the tree.
Paths == DOMAIN tree

\* The directory entries os.walk lists as files of directory d; entry 0 is
\* the symbolic link.
Entries(d) ==
    {p \in Paths : DirOf(p) = d} \cup (IF d = 2 /\ link # 0 THEN {0} ELSE {})

\* (d / fn).resolve()
Resolve(e) == IF e = 0 THEN link ELSE e


(* ------------------------------------------------------------------ *)
(* Mismatches and erasable intermediates                                *)
(* ------------------------------------------------------------------ *)

BIO_CONTAINERS == {"GZIP", "BGZF"}

BIO_LOGICAL == {"BAM", "CRAM", "BCF", "VCF", "SAM", "FASTQ", "FASTA"}

PREFER_SRA_OVER_FASTQ == FALSE

ALLOW_SAM_REGEN == TRUE

\* Path(path).name, also the end of str(path)
NameOf(path) == names[path]

\* The entries "<ref.fa>" and "<SRA_ACCESSION>" of depends_on, which name no
\* path of the tree.
RefFa == 0 - 1

SraAccession == 0 - 2

\* header_is_bio
HeaderIsBio(header) == header \in BIO_LOGICAL \/ header \in BIO_CONTAINERS

\* name_is_bio
NameIsBio(ext_logical, ext_container) ==
    ext_logical \in BIO_LOGICAL \/ ext_container \in BIO_CONTAINERS

\* A mismatch test that compares the header with the logical extension
\* whatever the containers are.
IsMismatchLogicalOnly(header, ext_container, ext_logical) == header # ext_logical

\* is_mismatch
IsMismatch(header, ext_container, ext_logical) ==
    IF header \in BIO_CONTAINERS THEN ext_container \notin BIO_CONTAINERS
    ELSE IF ext_container \in BIO_CONTAINERS THEN TRUE
    ELSE IF header # "" THEN header # ext_logical ELSE FALSE

\* Whether the loop over metas appends a record for m.
MismatchEmitted(m, include) ==
    LET header == m.header_type
        ext_container == norm_container(m.ext_container)
        ext_logical == m.ext_logical
    IN /\ header \notin {"UNKNOWN", ""}
       /\ include \/ HeaderIsBio(header) \/ NameIsBio(ext_logical, ext_container)
       /\ IsMismatch(header, ext_container, ext_logical)

MismatchRecord(m) ==
    [path |-> m.path,
     extension |-> m.ext_full,
     extension_container |-> norm_container(m.ext_container),
     extension_logical |-> m.ext_logical,
     header_type |-> m.header_type]

\* mismatches, for include = self.include_non_bio_mismatches
RECURSIVE Mismatches(_, _)
Mismatches(ms, include) ==
    IF ms = <<>> THEN <<>>
    ELSE (IF MismatchEmitted(Head(ms), include)
          THEN <<MismatchRecord(Head(ms))>> ELSE <<>>)
         \o Mismatches(Tail(ms), include)

\* files_out
FilesOut(ms) ==
    [i \in 1..Len(ms) |->
        [path |-> ms[i].path,
         size |-> ms[i].size,
         header_type |-> ms[i].header_type,
         extension |-> ms[i].ext_full,
         extension_container |-> ms[i].ext_container,
         extension_logical |-> ms[i].ext_logical]]

\* by_sample
RECURSIVE BySampleFrom(_, _)
BySampleFrom(d, recs) ==
    IF recs = <<>> THEN d
    ELSE BySampleFrom(DictAppend(d, base_stem(NameOf(Head(recs).path)), Head(recs)),
                      Tail(recs))

BySample(recs) == BySampleFrom(<<>>, recs)

\* [x for x in items if _has(x, kind)]
ItemsOf(items, kind) == SelectSeq(items, LAMBDA x : has(x, kind))

\* [x for x in items if str(x["extension"]).upper().endswith("SRA")]
SraItems(items) == SelectSeq(items, LAMBDA x : EndsWith(Upper(x.extension), StrSRA))

\* "trimmed" in Path(fq["path"]).name.lower()
IsTrimmed(x) == Contains(Lower(NameOf(x.path)), StrTrimmed)

Candidate(path, reason, fidelity, depends_on) ==
    [path |-> path, reason |-> reason, fidelity |-> fidelity,
     depends_on |-> depends_on]

\* A SAM rule that stops after the first SAM file of the group.
RuleSamFirstOnly(items) ==
    LET sams == ItemsOf(items, "SAM")
        bams == ItemsOf(items, "BAM")
        crams == ItemsOf(items, "CRAM")
    IN IF ALLOW_SAM_REGEN /\ sams # <<>> /\ (bams # <<>> \/ crams # <<>>)
       THEN <<IF bams # <<>>
              THEN Candidate(sams[1].path,
                             "SAM is an intermediate; re-emit from BAM",
                             "content-equivalent (order may differ)",
                             <<bams[1].path>>)
              ELSE Candidate(sams[1].path,
                             "SAM is an intermediate; re-emit from CRAM",
                             "content-equivalent (requires reference)",
                             <<crams[1].path, RefFa>>)>>
       ELSE <<>>

\* 1) SAM erasable if BAM or CRAM exist
RuleSam(items) ==
    LET sams == ItemsOf(items, "SAM")
        bams == ItemsOf(items, "BAM")
        crams == ItemsOf(items, "CRAM")
    IN IF ALLOW_SAM_REGEN /\ sams # <<>> /\ (bams # <<>> \/ crams # <<>>)
       THEN [i \in 1..Len(sams) |->
               IF bams # <<>>
               THEN Candidate(sams[i].path,
                              "SAM is an intermediate; re-emit from BAM",
                              "content-equivalent (order may differ)",
                              <<bams[1].path>>)
               ELSE Candidate(sams[i].path,
                              "SAM is an intermediate; re-emit from CRAM",
                              "content-equivalent (requires reference)",
                              <<crams[1].path, RefFa>>)]
       ELSE <<>>

\* A BAM rule that also takes the BAM files in a container.
RuleBamAnyContainer(items) ==
    LET crams == ItemsOf(items, "CRAM")
        bams == ItemsOf(items, "BAM")
    IN IF bams # <<>> /\ crams # <<>>
       THEN [i \in 1..Len(bams) |->
               Candidate(bams[i].path,
                         "BAM superseded by CRAM; reconstructable from CRAM",
                         "content-equivalent (coordinate order preserved if CRAM is sorted)",
                         <<crams[1].path, RefFa>>)]
       ELSE <<>>

\* 2) Uncompressed BAM erasable if CRAM exists
RuleBam(items) ==
    LET crams == ItemsOf(items, "CRAM")
        bams == SelectSeq(items, LAMBDA x :
                    has(x, "BAM") /\ ~is_container(x, {"GZIP", "BGZF"}))
    IN IF bams # <<>> /\ crams # <<>>
       THEN [i \in 1..Len(bams) |->
               Candidate(bams[i].path,
                         "BAM superseded by CRAM; reconstructable from CRAM",
                         "content-equivalent (coordinate order preserved if CRAM is sorted)",
                         <<crams[1].path, RefFa>>)]
       ELSE <<>>

\* 3) SRA vs FASTQ(.gz)
RuleSra(items) ==
    LET fastqs == ItemsOf(items, "FASTQ")
        sras == SraItems(items)
    IN IF sras # <<>> /\ fastqs # <<>>
       THEN IF PREFER_SRA_OVER_FASTQ
            THEN [i \in 1..Len(fastqs) |->
                    Candidate(fastqs[i].path,
                              "FASTQ re-derivable from retained SRA",
                              "tool-deterministic (fasterq-dump + pigz)",
                              <<SraAccession>>)]
            ELSE <<Candidate(sras[1].path,
                             "SRA redundant when gzipped FASTQ is retained locally",
                             "content-equivalent (tool-dependent container)",
                             [i \in 1..Len(fastqs) |-> fastqs[i].path])>>
       ELSE <<>>

\* 4) Trimmed FASTQ erasable if raw FASTQ present
RuleTrimmed(items) ==
    LET fastqs == ItemsOf(items, "FASTQ")
        raw_fq == SelectSeq(fastqs, LAMBDA x : ~IsTrimmed(x))
        trimmed_fq == SelectSeq(fastqs, IsTrimmed)
        manifests == SelectSeq(items, LAMBDA c :
                        EndsWith(Lower(NameOf(c.path)), StrManifestJson))
        manifest == IF manifests = <<>> THEN <<>> ELSE <<manifests[1].path>>
    IN IF raw_fq # <<>> /\ trimmed_fq # <<>>
       THEN [i \in 1..Len(trimmed_fq) |->
               Candidate(trimmed_fq[i].path,
                         "Trimmed FASTQ is re-derivable from raw FASTQ with recorded parameters",
                         "content-equivalent given pinned tool and params",
                         <<raw_fq[1].path>> \o manifest)]
       ELSE <<>>

\* The candidates the four rules append for one sample group.
GroupCandidates(items) ==
    RuleSam(items) \o RuleBam(items) \o RuleSra(items) \o RuleTrimmed(items)

\* erasable_candidates (without regen_cmd, a string built from the same
\* paths as depends_on)
RECURSIVE CandidatesOf(_)
CandidatesOf(by_sample) ==
    IF by_sample = <<>> THEN <<>>
    ELSE GroupCandidates(Head(by_sample).v) \o CandidatesOf(Tail(by_sample))

ErasableCandidates(ms) == CandidatesOf(BySample(FilesOut(ms)))

(* ------------------------------------------------------------------ *)
(* Steps of scan_directory                                              *)
(* ------------------------------------------------------------------ *)

\* The period of the classify events.  The source emits one every 100 files
\* (`scanned % 100 == 0`, scanner.py:216); the model scales the period down
\* so that trees of four and five files pass it.
ProgressEvery == 2

\* What a call of the callback may do: return (FALSE) or raise an Exception
\* (TRUE).
CbOutcomes == IF cb /\ cb_raises THEN BOOLEAN ELSE {FALSE}

\* An _emit that offers no event after the callback raised once.
EmitUnregisterOnRaise(evs, stage, sc, tot, path, r) ==
    IF ~cb \/ (\E i \in 1..Len(evs) : evs[i].raised) THEN evs
    ELSE Append(evs, [stage |-> stage, scanned |-> sc, total |-> tot,
                      path |-> path, raised |-> r])

\* self._emit(stage, scanned, total, path): a no-op without a callback; with
\* one, the event is handed to it and an Exception it raises is swallowed.
\* events lists the events handed over, each with what the callback did (r).
Emit(evs, stage, sc, tot, path, r) ==
    IF ~cb THEN evs
    ELSE Append(evs, [stage |-> stage, scanned |-> sc, total |-> tot,
                      path |-> path, raised |-> r])

\* The FileMeta of directory entry e; open_ok is FALSE when the sniffer's
\* open or read raises.
MetaOf(e, open_ok) ==
    LET p == Resolve(e)
        ext == normalize_extensions(names[p])
    IN [path |-> p,
        size |-> Len(tree[p]),
        header_type |-> sniff_header(p, tree[p], open_ok),
        ext_full |-> Upper(ext.ext_full),
        ext_container |-> ext.ext_container,
        ext_logical |-> ext.ext_logical]

\* A size bucket that also takes empty files.
BySizeStepAll(d, m) == DictAppend(d, m.size, m)

\* if m.size > 0: by_size.setdefault(m.size, []).append(m)
BySizeStep(d, m) == IF m.size > 0 THEN DictAppend(d, m.size, m) ELSE d

RECURSIVE BySizeFrom(_, _)
BySizeFrom(d, ms) ==
    IF ms = <<>> THEN d ELSE BySizeFrom(BySizeStep(d, Head(ms)), Tail(ms))

\* by_size after the loop over metas
BySize(ms) == BySizeFrom(<<>>, ms)

\* The sentinel "ERR" that stands in for the digest of a failed sampled hash.
FpErr == <<"ERR", <<>>>>

\* try: fp = sampled_fingerprint(m.path) except: fp = "ERR";
\* by_fp.setdefault((size, fp), []).append(m)
Tier1Step(d, m, ok) ==
    DictAppend(d,
               <<m.size, IF ok THEN sampled_fingerprint(tree[m.path]) ELSE FpErr>>,
               m)

\* A Tier 2 step that keys the group by the sampled fingerprint.
Tier2StepSampled(g, m) == DictAppend(g, sampled_fingerprint(tree[m.path]), m)

\* sha = stream_hash(m.path); groups.setdefault(sha, []).append(m)
Tier2Step(g, m) == DictAppend(g, stream_hash(tree[m.path]), m)

\* paths of a list of FileMeta
PathsOf(ms) == [i \in 1..Len(ms) |-> ms[i].path]

\* A dup_out entry that counts the savings, size x (count - 1).
DupEntrySavings(g) ==
    [sha256 |-> g.k,
     total_size |-> g.v[1].size * (Len(g.v) - 1),
     count |-> Len(g.v),
     files |-> SortedPaths(PathsOf(g.v))]

\* The dup_out entry of one group of groups.items()
DupEntry(g) ==
    [sha256 |-> g.k,
     total_size |-> g.v[1].size * Len(g.v),
     count |-> Len(g.v),
     files |-> SortedPaths(PathsOf(g.v))]

\* A dup_out that wants more than two members in a group.
RECURSIVE DupEntriesOver2(_)
DupEntriesOver2(g) ==
    IF g = <<>> THEN <<>>
    ELSE (IF Len(Head(g).v) <= 2 THEN <<>> ELSE <<DupEntry(Head(g))>>)
         \o DupEntriesOver2(Tail(g))

\* for sha, group in groups.items(): if len(group) < 2: continue; append
RECURSIVE DupEntries(_)
DupEntries(g) ==
    IF g = <<>> THEN <<>>
    ELSE (IF Len(Head(g).v) < 2 THEN <<>> ELSE <<DupEntry(Head(g))>>)
         \o DupEntries(Tail(g))

\* dup_out after dup_out.sort(...)
DupOut(g) == SortDupOut(DupEntries(g))

\* Whether one more I/O call may fail.
MayFail == nfail < fail_budget

TypeInitScan ==
    /\ pc = "idle"
    /\ cancel = FALSE
    /\ dir_idx = 0
    /\ todo = {}
    /\ metas = <<>>
    /\ scanned = 0
    /\ total = 0
    /\ work = <<>>
    /\ by_fp = <<>>
    /\ groups = <<>>
    /\ report = "none"
    /\ events = <<>>
    /\ nfail = 0
    /\ stat_failed = {}
    /\ open_failed = {}
    /\ fp_failed = {}
    /\ sha_failed = {}
    /\ root = "none"

\* request_cancel(), from any thread, before or during the scan
RequestCancel ==
    /\ pc \in {"idle", "walk", "tier0", "tier1", "tier2"}
    /\ ~cancel
    /\ cancel' = TRUE
    /\ UNCHANGED <<app_vars, env_vars, pc, dir_idx, todo, metas, scanned, total,
                   work, by_fp, groups, report, events, nfail, stat_failed,
                   open_failed, fp_failed, sha_failed, root, cb, sn_in, sn_out>>

\* rootp.exists()
RootAccepted(rk) == rk # "missing"

\* scan_directory(root) up to the start of the walk: the root check and the
\* counting pass.  os.walk yields nothing for a root that is no directory.
Start ==
    /\ pc = "idle"
    /\ \E rk \in {"dir", "file", "missing"} :
        /\ root' = rk
        /\ IF ~RootAccepted(rk)
           THEN /\ pc' = "raised"
                /\ UNCHANGED <<total, dir_idx, todo>>
           ELSE IF rk = "dir"
           THEN /\ pc' = "walk"
                /\ total' = Cardinality(Entries(1)) + Cardinality(Entries(2))
                /\ dir_idx' = 1
                /\ todo' = Entries(DirOrder[1])
           ELSE /\ pc' = "tier0"
                /\ total' = 0
                /\ UNCHANGED <<dir_idx, todo>>
    /\ UNCHANGED <<app_vars, env_vars, cancel, metas, scanned, work, by_fp, groups,
                   report, events, nfail, stat_failed, open_failed, fp_failed,
                   sha_failed, cb, sn_in, sn_out>>

\* A pass of the inner loop that does not look at the cancel flag.
WalkFileNoCancelCheck ==
    /\ pc = "walk"
    /\ \E e \in todo :
       \E outcome \in {"ok"} \cup (IF MayFail THEN {"stat", "open"} ELSE {}) :
        /\ todo' = todo \ {e}
        /\ metas' = IF outcome = "stat" THEN metas
                    ELSE Append(metas, MetaOf(e, outcome = "ok"))
        /\ nfail' = IF outcome = "ok" THEN nfail ELSE nfail + 1
        /\ stat_failed' = IF outcome = "stat" THEN stat_failed \cup {Resolve(e)}
                          ELSE stat_failed
        /\ open_failed' = IF outcome = "open" THEN open_failed \cup {Resolve(e)}
                          ELSE open_failed
        /\ scanned' = scanned + 1
        /\ \E r \in CbOutcomes :
            events' = IF (scanned + 1) % ProgressEvery = 0 \/ scanned + 1 = total
                      THEN Emit(events, "classify", scanned + 1, total, Resolve(e), r)
                      ELSE events
    /\ UNCHANGED <<app_vars, env_vars, pc, cancel, dir_idx, total, work, by_fp, groups,
                   report, fp_failed, sha_failed, root, cb, sn_in, sn_out>>

\* One pass of `for fn in files:` for an entry the directory listing gives
\* in any order.  A failing stat drops the file; a failing open or read is
\* swallowed by sniff_header.
WalkFile ==
    /\ pc = "walk"
    /\ ~cancel
    /\ \E e \in todo :
       \E outcome \in {"ok"} \cup (IF MayFail THEN {"stat", "open"} ELSE {}) :
        /\ todo' = todo \ {e}
        /\ metas' = IF outcome = "stat" THEN metas
                    ELSE Append(metas, MetaOf(e, outcome = "ok"))
        /\ nfail' = IF outcome = "ok" THEN nfail ELSE nfail + 1
        /\ stat_failed' = IF outcome = "stat" THEN stat_failed \cup {Resolve(e)}
                          ELSE stat_failed
        /\ open_failed' = IF outcome = "open" THEN open_failed \cup {Resolve(e)}
                          ELSE open_failed
        /\ scanned' = scanned + 1
        /\ \E r \in CbOutcomes :
            events' = IF (scanned + 1) % ProgressEvery = 0 \/ scanned + 1 = total
                      THEN Emit(events, "classify", scanned + 1, total, Resolve(e), r)
                      ELSE events
    /\ UNCHANGED <<app_vars, env_vars, pc, cancel, dir_idx, total, work, by_fp, groups,
                   report, fp_failed, sha_failed, root, cb, sn_in, sn_out>>


\* The end of the inner loop (exhausted, or left by `if self._cancel: break`)
\* and the check `if self._cancel: break` of the outer loop.
WalkDirEnd ==
    /\ pc = "walk"
    /\ todo = {} \/ cancel
    /\ IF cancel \/ dir_idx = Len(DirOrder)
       THEN /\ pc' = "tier0"
            /\ UNCHANGED <<dir_idx, todo>>
       ELSE /\ dir_idx' = dir_idx + 1
            /\ todo' = Entries(DirOrder[dir_idx + 1])
            /\ UNCHANGED pc
    /\ UNCHANGED <<app_vars, env_vars, cancel, metas, scanned, total, work, by_fp,
                   groups, report, events, nfail, stat_failed, open_failed,
                   fp_failed, sha_failed, root, cb, sn_in, sn_out>>

\* self._emit("dedup_tier0", ...) and the size buckets
Tier0 ==
    /\ pc = "tier0"
    /\ \E r \in CbOutcomes : events' = Emit(events, "dedup_tier0", scanned, total, 0, r)
    /\ work' = MembersOfBig(BySize(metas))
    /\ by_fp' = <<>>
    /\ pc' = "tier1"
    /\ UNCHANGED <<app_vars, env_vars, cancel, dir_idx, todo, metas, scanned, total,
                   groups, report, nfail, stat_failed, open_failed, fp_failed,
                   sha_failed, root, cb, sn_in, sn_out>>

\* One pass of the Tier 1 loop `for m in group:`
Tier1File ==
    /\ pc = "tier1"
    /\ work # <<>>
    /\ \E ok \in {TRUE} \cup (IF MayFail THEN {FALSE} ELSE {}) :
        /\ by_fp' = Tier1Step(by_fp, Head(work), ok)
        /\ nfail' = IF ok THEN nfail ELSE nfail + 1
        /\ fp_failed' = IF ok THEN fp_failed ELSE fp_failed \cup {Head(work).path}
    /\ work' = Tail(work)
    /\ UNCHANGED <<app_vars, env_vars, pc, cancel, dir_idx, todo, metas, scanned, total,
                   groups, report, events, stat_failed, open_failed, sha_failed,
                   root, cb, sn_in, sn_out>>

\* An end of Tier 1 that emits no event.
Tier1EndSilent ==
    /\ pc = "tier1"
    /\ work = <<>>
    /\ work' = MembersOfBig(by_fp)
    /\ groups' = <<>>
    /\ pc' = "tier2"
    /\ UNCHANGED <<app_vars, env_vars, cancel, dir_idx, todo, metas, scanned, total,
                   by_fp, report, events, nfail, stat_failed, open_failed,
                   fp_failed, sha_failed, root, cb, sn_in, sn_out>>

\* The end of Tier 1 and self._emit("dedup_tier2", ...)
Tier1End ==
    /\ pc = "tier1"
    /\ work = <<>>
    /\ \E r \in CbOutcomes : events' = Emit(events, "dedup_tier2", scanned, total, 0, r)
    /\ work' = MembersOfBig(by_fp)
    /\ groups' = <<>>
    /\ pc' = "tier2"
    /\ UNCHANGED <<app_vars, env_vars, cancel, dir_idx, todo, metas, scanned, total,
                   by_fp, report, nfail, stat_failed, open_failed, fp_failed,
                   sha_failed, root, cb, sn_in, sn_out>>

\* One pass of the Tier 2 loop `for m in bucket:`; a failing stream_hash
\* skips the file.
Tier2File ==
    /\ pc = "tier2"
    /\ work # <<>>
    /\ \E ok \in {TRUE} \cup (IF MayFail THEN {FALSE} ELSE {}) :
        /\ groups' = IF ok THEN Tier2Step(groups, Head(work)) ELSE groups
        /\ nfail' = IF ok THEN nfail ELSE nfail + 1
        /\ sha_failed' = IF ok THEN sha_failed ELSE sha_failed \cup {Head(work).path}
    /\ work' = Tail(work)
    /\ UNCHANGED <<app_vars, env_vars, pc, cancel, dir_idx, todo, metas, scanned, total,
                   by_fp, report, events, stat_failed, open_failed, fp_failed,
                   root, cb, sn_in, sn_out>>

\* dup_out and its sort, the mismatches, files_out, the erasable candidates
\* and the returned dict (without stats, which holds timings)
Finish ==
    /\ pc = "tier2"
    /\ work = <<>>
    /\ report' = [n_files |-> Len(metas),
                  mismatches |-> Mismatches(metas, include_non_bio_mismatches),
                  files |-> FilesOut(metas),
                  duplicate_groups |-> DupOut(groups),
                  erasable_candidates |-> ErasableCandidates(metas)]
    /\ pc' = "done"
    /\ UNCHANGED <<app_vars, env_vars, cancel, dir_idx, todo, metas, scanned, total,
                   work, by_fp, groups, events, nfail, stat_failed, open_failed,
                   fp_failed, sha_failed, root, cb, sn_in, sn_out>>

(* ------------------------------------------------------------------ *)
(* The specification of a scan                                          *)
(* ------------------------------------------------------------------ *)

\* No lone sniff_header call is pending.
NoSniff == [name |-> "", bytes |-> <<>>, open_ok |-> TRUE]

\* A scanner on which set_progress_callback was called, as api_scan_start
\* does before it starts the scan.
Init ==
    /\ \/ /\ tree \in [MainPaths -> Contents]
          /\ fail_budget = MaxFailures
       \/ /\ tree \in [TiePaths -> TieContents]
          /\ fail_budget = 0
       \/ /\ tree = <<>>
          /\ fail_budget = 0
    /\ names = [p \in DOMAIN tree |-> MainNames[p]]
    /\ include_non_bio_mismatches = FALSE
    /\ link \in LinkTargets
    /\ cb_raises = FALSE
    /\ TypeInitScan
    /\ cb = TRUE
    /\ sn_in = NoSniff
    /\ sn_out = "none"
    /\ AppIdle

Next ==
    \/ RequestCancel
    \/ Start
    \/ WalkFile
    \/ WalkDirEnd
    \/ Tier0
    \/ Tier1File
    \/ Tier1End
    \/ Tier2File
    \/ Finish

Spec == Init /\ [][Next]_vars


(* ------------------------------------------------------------------ *)
(* Claims about duplicate_groups                                        *)
(* ------------------------------------------------------------------ *)

Done == pc = "done"

\* The walk iterated over every directory entry of a root that is a directory.
WalkComplete == root = "dir" /\ scanned = total

DupGroups == report.duplicate_groups

\* The paths a dup_out entry lists, as a set.
Listed(g) == {g.files[i] : i \in 1..Len(g.files)}

\* C1: every entry of duplicate_groups has count equal to the number of
\* listed files and at least 2; all its files hold the same bytes, hence
\* have the same size and the same SHA-256 digest, which is the entry's
\* sha256; and total_size is the size of one member times count.
C1_GroupWellFormed ==
    Done =>
        \A i \in 1..Len(DupGroups) :
            LET g == DupGroups[i] IN
            /\ g.count = Len(g.files)
            /\ g.count >= 2
            /\ \A a, b \in Listed(g) :
                  /\ Len(tree[a]) = Len(tree[b])
                  /\ Sha256(tree[a]) = Sha256(tree[b])
            /\ \A a \in Listed(g) :
                  /\ g.sha256 = Sha256(tree[a])
                  /\ g.total_size = Len(tree[a]) * g.count

\* A scan returned a group of three files.
C1_Witness ==
    /\ Done
    /\ \E i \in 1..Len(DupGroups) :
          DupGroups[i].count = 3 /\ Cardinality(Listed(DupGroups[i])) = 3

\* Two distinct non-empty files with the same bytes, neither of which failed
\* to stat or to hash.
SamePair(p, q) ==
    /\ p # q
    /\ tree[p] = tree[q]
    /\ tree[p] # <<>>
    /\ {p, q} \cap (stat_failed \cup fp_failed \cup sha_failed) = {}

\* The report holds exactly one group that lists p or q, and it lists both.
OneGroupOfBoth(p, q) ==
    LET at == {i \in 1..Len(DupGroups) : {p, q} \cap Listed(DupGroups[i]) # {}} IN
    /\ Cardinality(at) = 1
    /\ \A i \in at : {p, q} \subseteq Listed(DupGroups[i])

\* C2 as stated: two distinct non-empty files under the root with the same
\* bytes, neither failing to stat or hash, are listed together by exactly one
\* group of the report.
C2_RoundTripAnyScan ==
    Done /\ root = "dir" =>
        \A p, q \in Paths : SamePair(p, q) => OneGroupOfBoth(p, q)

\* C2, amended: the same, for a scan whose walk was not cut short by a
\* cancel request.
C2_RoundTrip ==
    Done /\ WalkComplete =>
        \A p, q \in Paths : SamePair(p, q) => OneGroupOfBoth(p, q)

\* A complete scan grouped two equal files of different directories while a
\* third file failed to open in the sniffer.
C2_Witness ==
    /\ Done
    /\ WalkComplete
    /\ open_failed # {}
    /\ \E p, q \in Paths :
          /\ DirOf(p) # DirOf(q)
          /\ SamePair(p, q)
          /\ OneGroupOfBoth(p, q)

\* C3: two files whose bytes differ are never listed by the same group, also
\* when they have the same size and the same sampled fingerprint.
C3_Perturbation ==
    Done =>
        \A p, q \in Paths :
            tree[p] # tree[q] =>
                \A i \in 1..Len(DupGroups) : ~({p, q} \subseteq Listed(DupGroups[i]))

\* Two files of the same size and the same sampled fingerprint, which differ
\* in a byte outside the windows, went through Tier 2 together and each is
\* listed by a group.
C3_Witness ==
    /\ Done
    /\ \E p, q \in Paths :
          /\ tree[p] # tree[q]
          /\ Len(tree[p]) = Len(tree[q])
          /\ \E i \in 1..Len(by_fp) :
                {p, q} \subseteq {by_fp[i].v[j].path : j \in 1..Len(by_fp[i].v)}
          /\ \E i, j \in 1..Len(DupGroups) :
                p \in Listed(DupGroups[i]) /\ q \in Listed(DupGroups[j])

\* The number of entries of a dict that hold at least two members.
BigCount(d) == Cardinality({i \in 1..Len(d) : Len(d[i].v) >= 2})

\* The number of members of the entries of a dict that hold at least two.
RECURSIVE FilesInBig(_)
FilesInBig(d) ==
    IF d = <<>> THEN 0
    ELSE (IF Len(Head(d).v) >= 2 THEN Len(Head(d).v) ELSE 0) + FilesInBig(Tail(d))

\* The sizes that at least two non-empty files of metas have.
SharedSizes ==
    {metas[i].size : i \in {i \in 1..Len(metas) :
        /\ metas[i].size > 0
        /\ \E j \in 1..Len(metas) : j # i /\ metas[j].size = metas[i].size}}

\* The number of files of metas in size buckets of at least two.
FilesInSizeBuckets ==
    Cardinality({i \in 1..Len(metas) : metas[i].size \in SharedSizes})

\* C4 as stated: the number of Tier 2 digest groups of at least 2 members is
\* at most the number of Tier 1 partitions of at least 2 members, which is
\* at most the number of size buckets of at least 2 members.  Stated for the
\* scans in which no call fails and that are not cancelled.
C4_GroupCountMonotone ==
    Done /\ WalkComplete /\ nfail = 0 =>
        /\ BigCount(groups) <= BigCount(by_fp)
        /\ BigCount(by_fp) <= Cardinality(SharedSizes)

\* C4, amended: the number of files in Tier 2 digest groups of at least 2
\* members is at most the number of files in Tier 1 partitions of at least 2
\* members, which is at most the number of files in size buckets of at least
\* 2 members.
C4_FileCountMonotone ==
    Done =>
        /\ FilesInBig(groups) <= FilesInBig(by_fp)
        /\ FilesInBig(by_fp) <= FilesInSizeBuckets

\* Each tier pruned a file: four files in a size bucket, three of them in a
\* Tier 1 partition, two of them in a digest group.
C4_Witness ==
    /\ Done
    /\ 0 < FilesInBig(groups)
    /\ FilesInBig(groups) < FilesInBig(by_fp)
    /\ FilesInBig(by_fp) < FilesInSizeBuckets

\* C5: duplicate_groups is in descending order of total_size and, among
\* equal total_size, of count; the files of every group are in ascending
\* order of path.
C5_Sorted ==
    Done =>
        /\ \A i \in 1..(Len(DupGroups) - 1) :
              \/ DupGroups[i].total_size > DupGroups[i + 1].total_size
              \/ /\ DupGroups[i].total_size = DupGroups[i + 1].total_size
                 /\ DupGroups[i].count >= DupGroups[i + 1].count
        /\ \A i \in 1..Len(DupGroups) :
              \A a, b \in 1..Len(DupGroups[i].files) :
                  a < b => DupGroups[i].files[a] <= DupGroups[i].files[b]

\* The sort moved a group on the count alone: two groups have the same
\* total_size, and the one that groups.items() yields first has the smaller
\* count.
C5_Witness ==
    /\ Done
    /\ Len(DupGroups) = 2
    /\ DupEntries(groups) # DupGroups
    /\ DupGroups[1].total_size = DupGroups[2].total_size
    /\ DupGroups[1].count > DupGroups[2].count

(* ------------------------------------------------------------------ *)
(* The scan as a function of the order of the walk                      *)
(* ------------------------------------------------------------------ *)

\* The orders in which a directory listing may give the entries of S.
Listings(S) ==
    {f \in [1..Cardinality(S) -> S] :
        \A i, j \in 1..Cardinality(S) : i # j => f[i] # f[j]}

\* The orders in which os.walk may enumerate the entries of the tree.
WalkOrders ==
    {a \o b : a \in Listings(Entries(DirOrder[1])),
              b \in Listings(Entries(DirOrder[2]))}

RECURSIVE Tier1All(_, _)
Tier1All(d, ms) ==
    IF ms = <<>> THEN d ELSE Tier1All(Tier1Step(d, Head(ms), TRUE), Tail(ms))

RECURSIVE Tier2All(_, _)
Tier2All(g, ms) ==
    IF ms = <<>> THEN g ELSE Tier2All(Tier2Step(g, Head(ms)), Tail(ms))

\* duplicate_groups of a scan that is not cancelled, in which no call fails
\* and whose walk enumerates the entries in the given order.
ScanDupGroups(order) ==
    LET ms == [i \in 1..Len(order) |-> MetaOf(order[i], TRUE)]
        fp == Tier1All(<<>>, MembersOfBig(BySize(ms)))
        g == Tier2All(<<>>, MembersOfBig(fp))
    IN DupOut(g)

\* C6: for a fixed tree, duplicate_groups is the same list, groups and
\* members in the same order, for every order in which the walk enumerates
\* the entries.
C6_Deterministic ==
    Done /\ WalkComplete /\ nfail = 0 =>
        \A order \in WalkOrders : ScanDupGroups(order) = DupGroups

(* ------------------------------------------------------------------ *)
(* Claims about failures                                                *)
(* ------------------------------------------------------------------ *)

\* C7: for a root that does not resolve to an existing directory, also one
\* that is a regular file, scan_directory raises and returns no report.
C7_RootMissing ==
    pc \in {"done", "raised"} /\ root # "dir" =>
        pc = "raised" /\ report = "none"

\* C8: in a scan that is not cancelled, a file whose stat, open or read failed
\* in the walk is not in files[], n_files counts files[] only, no duplicate
\* group lists the file, and every other file is in files[].
C8_FailedFileExcluded ==
    Done /\ WalkComplete /\ ~cancel =>
        /\ report.n_files = Len(report.files)
        /\ \A p \in stat_failed \cup open_failed :
              /\ \A i \in 1..Len(report.files) : report.files[i].path # p
              /\ \A i \in 1..Len(DupGroups) : p \notin Listed(DupGroups[i])
        /\ \A p \in Paths \ (stat_failed \cup open_failed) :
              \E i \in 1..Len(report.files) : report.files[i].path = p

\* C9: in a scan that is not cancelled, a file whose sampled hash or whose
\* streaming hash failed is listed by no duplicate group, and it is in
\* files[].
C9_HashFailureExcluded ==
    Done /\ WalkComplete /\ ~cancel =>
        \A p \in fp_failed \cup sha_failed :
            /\ \A i \in 1..Len(DupGroups) : p \notin Listed(DupGroups[i])
            /\ \E i \in 1..Len(report.files) : report.files[i].path = p

(* ------------------------------------------------------------------ *)
(* sniff_header on its own                                              *)
(* ------------------------------------------------------------------ *)

\* n filler bytes 'x'
Pad(n) == [i \in 1..n |-> 120]

\* Signatures, cut signatures and single bytes a content is built from.
SniffPieces ==
    { <<>>, MagicGzip, <<31, 139>>, MagicBam, <<66, 65, 77>>, MagicCram,
      MagicBcf, MagicVcf, MagicSamHd, <<64, 72, 68>>, MagicAt, MagicGt, <<120>> }

\* Fillers that move a following signature up to and across the end of the
\* range the VCF test looks at.
SniffPads ==
    { <<>>, Pad(VcfScan - Len(MagicVcf) - 1), Pad(VcfScan - Len(MagicVcf)) }

SniffNames == {"reads.fastq", "aln.bam", "notes.txt"}

SniffInputs ==
    { [name |-> n, bytes |-> a \o f \o b, open_ok |-> ok] :
        n \in SniffNames, a \in SniffPieces, f \in SniffPads,
        b \in SniffPieces, ok \in BOOLEAN }

InitSniff ==
    /\ tree = [p \in MainPaths |-> <<>>]
    /\ names = [p \in MainPaths |-> MainNames[p]]
    /\ include_non_bio_mismatches = FALSE
    /\ link = 0
    /\ cb_raises = FALSE
    /\ fail_budget = 0
    /\ TypeInitScan
    /\ cb = TRUE
    /\ sn_in \in SniffInputs
    /\ sn_out = "none"
    /\ AppIdle

\* header = self.sniff_header(p)
SniffCall ==
    /\ sn_out = "none"
    /\ sn_out' = sniff_header(sn_in.name, sn_in.bytes, sn_in.open_ok)
    /\ UNCHANGED <<app_vars, env_vars, scan_vars, sn_in>>

NextSniff == SniffCall

SpecSniff == InitSniff /\ [][NextSniff]_vars

(* ------------------------------------------------------------------ *)
(* The scan of a tree of named files                                    *)
(* ------------------------------------------------------------------ *)

\* A tree of two files with any name and any content, or a tree of three
\* files, and a scanner built with either value of
\* include_non_bio_mismatches.  Two files of one directory have different
\* names.
InitRules ==
    /\ \E fs \in [PairPaths -> PairFiles] \cup [TriplePaths -> TripleFiles] :
          /\ fs[1].name # fs[2].name
          /\ tree = [p \in DOMAIN fs |-> fs[p].bytes]
          /\ names = [p \in DOMAIN fs |-> fs[p].name]
    /\ include_non_bio_mismatches \in BOOLEAN
    /\ link = 0
    /\ cb_raises = FALSE
    /\ fail_budget = 0
    /\ TypeInitScan
    /\ cb = TRUE
    /\ sn_in = NoSniff
    /\ sn_out = "none"
    /\ AppIdle

\* The steps of a scan that no thread cancels.
NextRules ==
    \/ Start
    \/ WalkFile
    \/ WalkDirEnd
    \/ Tier0
    \/ Tier1File
    \/ Tier1End
    \/ Tier2File
    \/ Finish

SpecRules == InitRules /\ [][NextRules]_vars

(* ------------------------------------------------------------------ *)
(* C10                                                                  *)
(* ------------------------------------------------------------------ *)

RuleOrder == <<"GZIP", "BAM", "CRAM", "BCF", "VCF", "SAM", "FASTQ", "FASTA">>

\* The rule of one kind, on the bytes of the file.
RuleMatches(kind, bytes) ==
    CASE kind = "GZIP"  -> Len(bytes) >= 3 /\ SubSeq(bytes, 1, 3) = <<31, 139, 8>>
      [] kind = "BAM"   -> Len(bytes) >= 4 /\ SubSeq(bytes, 1, 4) = <<66, 65, 77, 1>>
      [] kind = "CRAM"  -> Len(bytes) >= 4 /\ SubSeq(bytes, 1, 4) = <<67, 82, 65, 77>>
      [] kind = "BCF"   -> Len(bytes) >= 3 /\ SubSeq(bytes, 1, 3) = <<66, 67, 70>>
      [] kind = "VCF"   -> \E i \in 1..256 :
                              /\ i + 15 <= 256
                              /\ i + 15 <= Len(bytes)
                              /\ SubSeq(bytes, i, i + 15) = MagicVcf
      [] kind = "SAM"   -> Len(bytes) >= 4 /\ SubSeq(bytes, 1, 4) = <<64, 72, 68, 9>>
      [] kind = "FASTQ" -> Len(bytes) >= 1 /\ bytes[1] = 64
      [] kind = "FASTA" -> Len(bytes) >= 1 /\ bytes[1] = 62

FirstRule(bytes) ==
    LET hits == {i \in 1..Len(RuleOrder) : RuleMatches(RuleOrder[i], bytes)} IN
    IF hits = {} THEN "UNKNOWN"
    ELSE RuleOrder[CHOOSE i \in hits : \A j \in hits : i <= j]

\* C10: the result of sniff_header is the kind of the first rule, in the
\* order GZIP, BAM, CRAM, BCF, VCF, SAM, FASTQ, FASTA, that the bytes of the
\* file match, and UNKNOWN when none matches, when the file is empty and when
\* the open or the read fails; the same bytes give the same result under
\* every file name.
C10_SniffFirstMatch ==
    sn_out # "none" =>
        /\ sn_out = IF ~sn_in.open_ok \/ sn_in.bytes = <<>>
                    THEN "UNKNOWN"
                    ELSE FirstRule(sn_in.bytes)
        /\ \A n \in SniffNames :
              sniff_header(n, sn_in.bytes, sn_in.open_ok) = sn_out

\* A file starting "@HD\t" was sniffed: the SAM rule and the FASTQ rule both
\* match it.
C10_Witness ==
    /\ sn_out = "SAM"
    /\ sn_in.open_ok
    /\ RuleMatches("FASTQ", sn_in.bytes)

(* ------------------------------------------------------------------ *)
(* Claims about mismatches                                              *)
(* ------------------------------------------------------------------ *)

\* The records of files[], as a set.
FileSet == {report.files[i] : i \in 1..Len(report.files)}

\* The indices of the mismatch records of a path.
MismatchesAt(path) ==
    {i \in 1..Len(report.mismatches) : report.mismatches[i].path = path}

\* The bio filter as the specification words it: the caller asked for the
\* non-bio mismatches, or the header is a logical bio type, or the logical
\* extension is one, or the extension names a bio container.
PassesBioFilter(header, ext_logical, ext_container) ==
    \/ include_non_bio_mismatches
    \/ header \in {"BAM", "CRAM", "BCF", "VCF", "SAM", "FASTQ", "FASTA"}
    \/ ext_logical \in {"BAM", "CRAM", "BCF", "VCF", "SAM", "FASTQ", "FASTA"}
    \/ ext_container \in {"GZIP", "BGZF"}

\* The header contradicts the name.
Contradicts(header, ext_logical, ext_container) ==
    \/ header \in {"GZIP", "BGZF"} /\ ext_container \notin {"GZIP", "BGZF"}
    \/ header \notin {"GZIP", "BGZF"} /\ ext_container \in {"GZIP", "BGZF"}
    \/ /\ header \notin {"GZIP", "BGZF"}
       /\ ext_container \notin {"GZIP", "BGZF"}
       /\ header # ext_logical

\* C11: no mismatch record has header_type UNKNOWN or empty; every record
\* repeats the header and the extensions of its file; and a file with a
\* known header that passes the bio filter has a mismatch record, exactly
\* one, if and only if the header is a container and the extension names
\* none, or the header is no container and the extension names one, or
\* neither is a container and the header differs from the logical extension.
C11_MismatchRule ==
    Done =>
        /\ \A i \in 1..Len(report.mismatches) :
              /\ report.mismatches[i].header_type \notin {"UNKNOWN", ""}
              /\ \E f \in FileSet :
                    /\ f.path = report.mismatches[i].path
                    /\ f.header_type = report.mismatches[i].header_type
                    /\ f.extension = report.mismatches[i].extension
                    /\ f.extension_logical = report.mismatches[i].extension_logical
                    /\ f.extension_container = report.mismatches[i].extension_container
        /\ \A f \in FileSet :
              /\ f.header_type \notin {"UNKNOWN", ""}
              /\ PassesBioFilter(f.header_type, f.extension_logical, f.extension_container)
              => Cardinality(MismatchesAt(f.path)) =
                    IF Contradicts(f.header_type, f.extension_logical, f.extension_container)
                    THEN 1 ELSE 0

\* A scan reported a file whose name claims compression while its content is
\* a plain logical type, and left out a file whose header and name agree.
C11_Witness ==
    /\ Done
    /\ \E i \in 1..Len(report.mismatches) :
          /\ report.mismatches[i].header_type \in BIO_LOGICAL
          /\ report.mismatches[i].extension_container = "GZIP"
          /\ report.mismatches[i].extension_logical = report.mismatches[i].header_type
    /\ \E f \in FileSet :
          /\ f.header_type = "GZIP"
          /\ f.extension_container = "BGZF"
          /\ MismatchesAt(f.path) = {}

\* C12: a scanner built with include_non_bio_mismatches = false emits a
\* mismatch record only for a file whose header is a logical bio type, or
\* whose logical extension is one, or whose extension names a bio container.
C12_BioFilter ==
    Done /\ ~include_non_bio_mismatches =>
        \A i \in 1..Len(report.mismatches) :
            PassesBioFilter(report.mismatches[i].header_type,
                            report.mismatches[i].extension_logical,
                            report.mismatches[i].extension_container)

(* ------------------------------------------------------------------ *)
(* Claims about erasable candidates                                     *)
(* ------------------------------------------------------------------ *)

Candidates == report.erasable_candidates

\* The files of files[] in the sample group of f.
GroupOf(f) ==
    {g \in FileSet : base_stem(NameOf(g.path)) = base_stem(NameOf(f.path))}

PathSet(S) == {g.path : g \in S}

\* The indices of the candidates for a path that carry one of the reasons.
EmittedAt(path, reasons) ==
    {i \in 1..Len(Candidates) :
        Candidates[i].path = path /\ Candidates[i].reason \in reasons}

ReasonsSam ==
    {"SAM is an intermediate; re-emit from BAM",
     "SAM is an intermediate; re-emit from CRAM"}

ReasonsBam == {"BAM superseded by CRAM; reconstructable from CRAM"}

ReasonsSra ==
    {"FASTQ re-derivable from retained SRA",
     "SRA redundant when gzipped FASTQ is retained locally"}

ReasonsTrimmed ==
    {"Trimmed FASTQ is re-derivable from raw FASTQ with recorded parameters"}

IsSam(f) == f.header_type = "SAM" \/ f.extension_logical = "SAM"

IsBam(f) == f.header_type = "BAM" \/ f.extension_logical = "BAM"

IsCram(f) == f.header_type = "CRAM" \/ f.extension_logical = "CRAM"

IsFastq(f) == f.header_type = "FASTQ" \/ f.extension_logical = "FASTQ"

\* C13: every SAM file of a sample group that holds a BAM file, in a
\* container or not, is a candidate of the SAM rule, once, with depends_on
\* holding one BAM path of the group and nothing else; every SAM file of a
\* group that holds no BAM and a CRAM is a candidate, once, with depends_on
\* holding a CRAM path of the group and then "<ref.fa>"; no SAM file of a
\* group that holds neither is a candidate of the rule; and the rule emits
\* nothing but SAM files.
C13_RuleSam ==
    Done =>
        /\ \A f \in FileSet :
              IsSam(f) =>
                LET bams == PathSet({g \in GroupOf(f) : IsBam(g)})
                    crams == PathSet({g \in GroupOf(f) : IsCram(g)})
                    mine == EmittedAt(f.path, ReasonsSam)
                IN IF bams # {}
                   THEN /\ Cardinality(mine) = 1
                        /\ \A i \in mine :
                              /\ Len(Candidates[i].depends_on) = 1
                              /\ Candidates[i].depends_on[1] \in bams
                   ELSE IF crams # {}
                   THEN /\ Cardinality(mine) = 1
                        /\ \A i \in mine :
                              /\ Len(Candidates[i].depends_on) = 2
                              /\ Candidates[i].depends_on[1] \in crams
                              /\ Candidates[i].depends_on[2] = RefFa
                   ELSE mine = {}
        /\ \A i \in 1..Len(Candidates) :
              Candidates[i].reason \in ReasonsSam =>
                  \E f \in FileSet : f.path = Candidates[i].path /\ IsSam(f)

\* A scan emitted the two SAM files of a group that holds a BAM file in a
\* container.
C13_Witness ==
    /\ Done
    /\ \E f, g, b \in FileSet :
          /\ f.path # g.path
          /\ g \in GroupOf(f)
          /\ b \in GroupOf(f)
          /\ f.header_type = "SAM"
          /\ g.header_type = "SAM"
          /\ IsBam(b)
          /\ b.extension_container = "GZIP"
          /\ EmittedAt(f.path, ReasonsSam) # {}
          /\ EmittedAt(g.path, ReasonsSam) # {}

\* C14: every BAM file whose extension names no container, in a sample group
\* that holds a CRAM, is a candidate of the BAM rule, once, with depends_on
\* holding a CRAM path of the group and then "<ref.fa>"; the rule emits no BAM
\* of a group without a CRAM, no BAM whose extension names GZIP or BGZF, and
\* nothing but BAM files.
C14_RuleBam ==
    Done =>
        /\ \A f \in FileSet :
              IsBam(f) =>
                LET crams == PathSet({g \in GroupOf(f) : IsCram(g)})
                    mine == EmittedAt(f.path, ReasonsBam)
                IN IF crams # {} /\ f.extension_container \notin {"GZIP", "BGZF"}
                   THEN /\ Cardinality(mine) = 1
                        /\ \A i \in mine :
                              /\ Len(Candidates[i].depends_on) = 2
                              /\ Candidates[i].depends_on[1] \in crams
                              /\ Candidates[i].depends_on[2] = RefFa
                   ELSE mine = {}
        /\ \A i \in 1..Len(Candidates) :
              Candidates[i].reason \in ReasonsBam =>
                  \E f \in FileSet : f.path = Candidates[i].path /\ IsBam(f)

\* A scan emitted the BAM of a group that holds a CRAM and left the gzipped
\* BAM of the same group alone.
C14_Witness ==
    /\ Done
    /\ \E b, z, c \in FileSet :
          /\ z \in GroupOf(b)
          /\ c \in GroupOf(b)
          /\ b.header_type = "BAM"
          /\ b.extension_container = ""
          /\ IsBam(z)
          /\ z.extension_container = "GZIP"
          /\ c.header_type = "CRAM"
          /\ EmittedAt(b.path, ReasonsBam) # {}
          /\ EmittedAt(z.path, ReasonsBam) = {}

\* The SRA files: the extension ends with SRA.
IsSra(f) ==
    /\ Len(f.extension) >= 3
    /\ SubSeq(f.extension, Len(f.extension) - 2, Len(f.extension)) = <<83, 82, 65>>

\* The set of the entries of a list.
Range(xs) == {xs[i] : i \in 1..Len(xs)}

\* C15: under the default policy, in a sample group that holds an SRA file
\* and a FASTQ, an SRA of the group is the candidate of the SRA rule, with
\* depends_on holding the FASTQ paths of the group, and no FASTQ is a
\* candidate of the rule; in a group with an SRA and no FASTQ the rule emits
\* no SRA.
C15_RuleSra ==
    Done =>
        \A f \in FileSet :
            IsSra(f) =>
              LET fastqs == PathSet({g \in GroupOf(f) : IsFastq(g)})
                  sras == PathSet({g \in GroupOf(f) : IsSra(g)})
                  emitted == {i \in 1..Len(Candidates) :
                                 /\ Candidates[i].reason \in ReasonsSra
                                 /\ Candidates[i].path \in PathSet(GroupOf(f))}
              IN IF fastqs # {}
                 THEN /\ \E i \in emitted :
                            /\ Candidates[i].path \in sras
                            /\ Range(Candidates[i].depends_on) = fastqs
                      /\ \A i \in emitted : Candidates[i].path \notin fastqs
                 ELSE emitted = {}

\* The index of the first period of a name that follows a character other
\* than a period, or one past the end for a name with no such period and for
\* a name that ends with a period.
FirstSuffixDot(name) ==
    LET dots == {i \in 1..Len(name) :
                    /\ name[i] = 46
                    /\ \E j \in 1..(i - 1) : name[j] # 46}
    IN IF dots = {} \/ name[Len(name)] = 46 THEN Len(name) + 1
       ELSE CHOOSE i \in dots : \A j \in dots : i <= j

\* The maximal runs of characters other than . - _ in the part of a name in
\* front of its dotted suffixes, as pairs of indices.
WordRuns(name) ==
    LET n == FirstSuffixDot(name) - 1
        sep(i) == name[i] \in {46, 45, 95}
    IN {r \in (1..n) \X (1..n) :
            /\ r[1] <= r[2]
            /\ \A i \in r[1]..r[2] : ~sep(i)
            /\ r[1] = 1 \/ sep(r[1] - 1)
            /\ r[2] = n \/ sep(r[2] + 1)}

ProcessingTokens ==
    { <<114, 49>>, <<114, 50>>, <<114, 101, 97, 100, 49>>,
      <<114, 101, 97, 100, 50>>, <<112, 97, 105, 114, 101, 100>>,
      <<117, 110, 112, 97, 105, 114, 101, 100>>,
      <<116, 114, 105, 109, 109, 101, 100>>, <<115, 111, 114, 116, 101, 100>>,
      <<117, 110, 115, 111, 114, 116, 101, 100>>,
      <<99, 111, 108, 108, 97, 116, 101, 100>> }

\* The words of a name in lower case, in their order, without the
\* processing tokens.
SampleWords(name) ==
    LET low(w) == [i \in 1..Len(w) |->
                      IF w[i] \in 65..90 THEN w[i] + 32 ELSE w[i]]
        runs == {r \in WordRuns(name) :
                    low(SubSeq(name, r[1], r[2])) \notin ProcessingTokens}
        nth(k) == CHOOSE r \in runs :
                      Cardinality({q \in runs : q[1] < r[1]}) = k - 1
    IN [k \in 1..Cardinality(runs) |-> low(SubSeq(name, nth(k)[1], nth(k)[2]))]

\* The basename holds "trimmed", in any case.
NamedTrimmed(f) ==
    LET name == NameOf(f.path) IN
    \E i \in 1..(Len(name) - 6) :
        [k \in 1..7 |-> IF name[i + k - 1] \in 65..90
                        THEN name[i + k - 1] + 32 ELSE name[i + k - 1]]
            = <<116, 114, 105, 109, 109, 101, 100>>

\* The sample groups of files[], as sets of records.
SampleGroups ==
    LET d == BySample(report.files) IN {Range(d[i].v) : i \in 1..Len(d)}

\* C16: two files whose names, in front of their dotted suffixes, hold the
\* same words once case, separators and processing tokens are set aside are
\* in the same sample group; and in every sample group that holds a raw FASTQ
\* (no "trimmed" in the basename) and a trimmed FASTQ, the trimmed rule emits
\* every trimmed FASTQ once, with depends_on starting with a raw FASTQ of the
\* group, and nothing else of the group.
C16_RuleTrimmed ==
    Done =>
        /\ \A f, g \in FileSet :
              SampleWords(NameOf(f.path)) = SampleWords(NameOf(g.path)) =>
                  \E G \in SampleGroups : f \in G /\ g \in G
        /\ \A G \in SampleGroups :
              LET raw == PathSet({f \in G : IsFastq(f) /\ ~NamedTrimmed(f)})
                  trimmed == PathSet({f \in G : IsFastq(f) /\ NamedTrimmed(f)})
              IN raw # {} /\ trimmed # {} =>
                    \A f \in G :
                        LET mine == EmittedAt(f.path, ReasonsTrimmed) IN
                        IF f.path \in trimmed
                        THEN /\ Cardinality(mine) = 1
                             /\ \A i \in mine : Candidates[i].depends_on[1] \in raw
                        ELSE mine = {}

\* A scan put "S-Trimmed_R1.fq", "s.trimmed.fastq" and a raw FASTQ named
\* "s_R1.fastq.gz" or "s__read2.FQ" in one sample group and emitted the two
\* trimmed files.
C16_Witness ==
    /\ Done
    /\ \E a, b, r \in FileSet :
          /\ NameOf(a.path) = NameTrimmedFq
          /\ NameOf(b.path) = NameDotTrimmed
          /\ NameOf(r.path) \in {NameR1FastqGz, NameRead2}
          /\ \E G \in SampleGroups : {a, b, r} \subseteq G
          /\ EmittedAt(a.path, ReasonsTrimmed) # {}
          /\ EmittedAt(b.path, ReasonsTrimmed) # {}
          /\ EmittedAt(r.path, ReasonsTrimmed) = {}

\* C17: no path in the depends_on of a candidate of a report is the path of
\* a candidate of that report.
C17_SafeErasable ==
    Done =>
        \A i, j \in 1..Len(Candidates) :
            Candidates[j].path \notin Range(Candidates[i].depends_on)

\* C18: the candidates one rule emits for one sample group are in ascending
\* order of path.
C18_EmissionSorted ==
    Done =>
        \A i, j \in 1..Len(Candidates) :
            /\ i < j
            /\ Candidates[i].reason = Candidates[j].reason
            /\ \E G \in SampleGroups :
                  {Candidates[i].path, Candidates[j].path} \subseteq PathSet(G)
            => Candidates[i].path <= Candidates[j].path

(* ------------------------------------------------------------------ *)
(* Claims about cancellation                                            *)
(* ------------------------------------------------------------------ *)

\* C19: a scan during which request_cancel was called does not raise once
\* the root was accepted; the cancel flag, once set, stays set; no file is
\* classified once the flag is set (a file in progress when the flag is set
\* is a file classified before the flag in the model, whose steps are whole
\* passes of the loop); and the scan returns a report whose files[] is the
\* list of the files classified until then and whose n_files is the length
\* of files[].
C19_CancelPartial ==
    /\ [](Done /\ cancel =>
            /\ report.n_files = Len(report.files)
            /\ PathsOf(report.files) = PathsOf(metas)
            /\ Len(metas) <= scanned)
    /\ [][cancel =>
            /\ cancel'
            /\ metas' = metas
            /\ scanned' = scanned
            /\ pc # "idle" => pc' # "raised"]_vars

\* A scan that was cancelled in the walk returned a report that holds some
\* of the files of the tree, not all.
C19_Witness ==
    /\ Done
    /\ cancel
    /\ root = "dir"
    /\ 0 < Len(report.files)
    /\ scanned < total
    /\ report.n_files = scanned

\* C20: once the cancel flag is set the scan computes no sampled fingerprint
\* and no streaming hash of another file.
C20_CancelEveryPhase == [][cancel => ~(Tier1File \/ Tier2File)]_vars


(* ------------------------------------------------------------------ *)
(* Claims about the progress events                                     *)
(* ------------------------------------------------------------------ *)

\* The indices of the events of a stage.
EventsOf(stage) == {i \in 1..Len(events) : events[i].stage = stage}

\* The walk is over and no cancel was requested.
WalkOverNoCancel ==
    /\ pc \in {"tier0", "tier1", "tier2", "done"}
    /\ cb
    /\ ~cancel

\* One step hands at most one event to the callback, and a classify event
\* is handed over exactly by the pass of the walk that brings scanned to a
\* multiple of the period or to total; the event holds the new count.
C21_ExactlyWhen ==
    [][/\ \/ events' = events
          \/ /\ Len(events') = Len(events) + 1
             /\ SubSeq(events', 1, Len(events)) = events
       /\ (cb /\ scanned' # scanned) =>
             /\ scanned' = scanned + 1
             /\ (scanned' % ProgressEvery = 0 \/ scanned' = total)
                    <=> (/\ Len(events') = Len(events) + 1
                         /\ events'[Len(events')].stage = "classify"
                         /\ events'[Len(events')].scanned = scanned'
                         /\ events'[Len(events')].total = total)
       /\ (Len(events') > Len(events) /\ events'[Len(events')].stage = "classify")
             => scanned' = scanned + 1]_vars

\* When the walk of a scan without cancel is over, a classify event with
\* scanned = total was handed over, and it comes before the dedup_tier0
\* event.
C21_AtCompletion ==
    WalkOverNoCancel =>
        /\ \E i \in EventsOf("classify") : events[i].scanned = total
        /\ \A i \in EventsOf("classify") : \A j \in EventsOf("dedup_tier0") : i < j

\* C21: with a callback registered and no cancel, the walk emits a classify
\* event exactly when scanned is a multiple of the period or equals total,
\* and for every tree, a tree of zero files included, a classify event with
\* scanned = total is emitted at the completion of the walk, before the
\* dedup_tier0 event.
C21_ClassifyEvents == C21_ExactlyWhen /\ []C21_AtCompletion

\* The same for the trees that hold at least one file.
C21_AtCompletionNonEmpty == (WalkOverNoCancel /\ total > 0) => C21_AtCompletion

\* A scan of a tree of five files is over: classify events at a multiple of
\* the period that is not total, and at total.
C21_SeenPeriodAndTotal ==
    /\ Done
    /\ ~cancel
    /\ total = 5
    /\ \E i \in EventsOf("classify") : events[i].scanned < total
    /\ \E i \in EventsOf("classify") : events[i].scanned = total

\* A scan of a tree of zero files is over and no classify event was emitted.
C21_EmptyTreeNoClassify ==
    /\ Done
    /\ ~cancel
    /\ root = "dir"
    /\ total = 0
    /\ EventsOf("classify") = {}

\* The events in the order of their stages: classify events, then
\* dedup_tier0, then dedup_tier2, with scanned never decreasing.
StageRank(stage) ==
    CASE stage = "classify" -> 0
      [] stage = "dedup_tier0" -> 1
      [] stage = "dedup_tier2" -> 2

EventsOrdered ==
    \A i, j \in 1..Len(events) :
        i < j => /\ StageRank(events[i].stage) <= StageRank(events[j].stage)
                 /\ events[i].scanned <= events[j].scanned

\* C22: in the events of one scan all classify events precede exactly one
\* dedup_tier0 event, which precedes exactly one dedup_tier2 event;
\* dedup_tier0 is emitted before any sampled fingerprint is computed,
\* dedup_tier2 after the last sampled fingerprint and before any streaming
\* hash; and scanned never decreases over the sequence.
C22_EventOrder ==
    /\ [](/\ EventsOrdered
          /\ Cardinality(EventsOf("dedup_tier0")) <= 1
          /\ Cardinality(EventsOf("dedup_tier2")) <= 1
          /\ Done => /\ Cardinality(EventsOf("dedup_tier0")) = 1
                     /\ Cardinality(EventsOf("dedup_tier2")) = 1)
    /\ [][/\ Tier1File => /\ EventsOf("dedup_tier0") # {}
                          /\ EventsOf("dedup_tier2") = {}
          /\ Tier2File => EventsOf("dedup_tier2") # {}]_vars

\* A scan is over that emitted two classify events and both dedup events and
\* computed sampled fingerprints and streaming hashes.
C22_Witness ==
    /\ Done
    /\ Cardinality(EventsOf("classify")) >= 2
    /\ EventsOf("dedup_tier0") # {}
    /\ EventsOf("dedup_tier2") # {}
    /\ by_fp # <<>>
    /\ groups # <<>>

(* ------------------------------------------------------------------ *)
(* The scan with a callback that raises, and with none                  *)
(* ------------------------------------------------------------------ *)

\* A tree of five files; a scanner with no callback, with a callback that
\* returns, or with a callback that may raise on any of its calls.
InitCallback ==
    /\ tree \in [TiePaths -> TieContents]
    /\ names = [p \in DOMAIN tree |-> MainNames[p]]
    /\ include_non_bio_mismatches = FALSE
    /\ link = 0
    /\ fail_budget = 0
    /\ TypeInitScan
    /\ cb \in BOOLEAN
    /\ cb_raises \in {r \in BOOLEAN : r => cb}
    /\ sn_in = NoSniff
    /\ sn_out = "none"
    /\ AppIdle

SpecCallback == InitCallback /\ [][NextRules]_vars

\* The report of a scan that is not cancelled, in which no call fails and
\* whose walk enumerates the entries in the given order.  No callback takes
\* part in it.
ScanReport(order) ==
    LET ms == [i \in 1..Len(order) |-> MetaOf(order[i], TRUE)]
        fp == Tier1All(<<>>, MembersOfBig(BySize(ms)))
        g == Tier2All(<<>>, MembersOfBig(fp))
    IN [n_files |-> Len(ms),
        mismatches |-> Mismatches(ms, include_non_bio_mismatches),
        files |-> FilesOut(ms),
        duplicate_groups |-> DupOut(g),
        erasable_candidates |-> ErasableCandidates(ms)]

\* The counts at which a walk of n files emits a classify event.
ClassifyCounts(n) == {k \in 1..n : k % ProgressEvery = 0 \/ k = n}

\* C23: when the callback raises on any subset of its calls the scan still
\* completes, every later event is still offered to the callback, and the
\* report is the report of the same scan with no callback; with no callback
\* nothing is emitted.
C23_CallbackFailure ==
    /\ pc = "raised" => root = "missing"
    /\ ~cb => events = <<>>
    /\ Done =>
        /\ report = ScanReport(PathsOf(metas))
        /\ cb /\ root = "dir" =>
            /\ {events[i].scanned : i \in EventsOf("classify")} = ClassifyCounts(total)
            /\ Cardinality(EventsOf("classify")) = Cardinality(ClassifyCounts(total))
            /\ Cardinality(EventsOf("dedup_tier0")) = 1
            /\ Cardinality(EventsOf("dedup_tier2")) = 1

\* A scan is over in which the callback raised on its first call and on the
\* dedup_tier0 event, was offered every event, and the report holds a
\* duplicate group.
C23_Witness ==
    /\ Done
    /\ cb_raises
    /\ Len(events) = 5
    /\ events[1].raised
    /\ ~events[2].raised
    /\ \E i \in EventsOf("dedup_tier0") : events[i].raised
    /\ report.duplicate_groups # <<>>

\* A scan with no callback is over and its report holds a duplicate group.
C23_NoCallbackDone ==
    /\ Done
    /\ ~cb
    /\ events = <<>>
    /\ report.duplicate_groups # <<>>

(* ------------------------------------------------------------------ *)
(* Claims about a candidate and its own path                            *)
(* ------------------------------------------------------------------ *)

\* C29: no erasable candidate lists its own path in its depends_on, also
\* for a file whose header type and logical extension name two different
\* bio types.
C29_NoSelfDependency ==
    Done =>
        \A i \in 1..Len(Candidates) :
            Candidates[i].path \notin Range(Candidates[i].depends_on)

\* The same for the trees in which the header type and the logical extension
\* of every file agree: no file is two kinds at once.
C29_NoSelfDependencyPlain ==
    (Done /\ \A f \in FileSet :
                /\ f.header_type \in {f.extension_logical, "UNKNOWN", "GZIP"}
                /\ ~(IsSra(f) /\ f.header_type # "UNKNOWN"))
        => C29_NoSelfDependency

\* A file named .bam that holds SAM text is a candidate that depends on
\* itself.
C29_SamNamedBam ==
    /\ Done
    /\ \E i \in 1..Len(Candidates) :
          /\ NameOf(Candidates[i].path) = NameBam
          /\ tree[Candidates[i].path] = MagicSamHd
          /\ Candidates[i].depends_on = <<Candidates[i].path>>

(* ------------------------------------------------------------------ *)
(* The scan of a tree that holds a symbolic link                        *)
(* ------------------------------------------------------------------ *)

\* What the symbolic link of the subdirectory points to: nothing is there
\* (0), a regular file of the root, or a regular file of the subdirectory.
InTreeTargets == {0, 1, 3}

InitLinks ==
    /\ tree \in [MainPaths -> Contents]
    /\ names = [p \in DOMAIN tree |-> MainNames[p]]
    /\ include_non_bio_mismatches = FALSE
    /\ link \in InTreeTargets
    /\ cb_raises = FALSE
    /\ fail_budget = 0
    /\ TypeInitScan
    /\ cb = TRUE
    /\ sn_in = NoSniff
    /\ sn_out = "none"
    /\ AppIdle

SpecLinks == InitLinks /\ [][NextRules]_vars

\* The entries of a list are pairwise distinct.
Distinct(xs) == \A i, j \in 1..Len(xs) : i # j => xs[i] # xs[j]

\* No path is twice in files[], no path is twice in a duplicate group, and
\* every regular file has exactly one entry in files[].
NoRepeatedPath ==
    /\ Distinct(PathsOf(report.files))
    /\ \A i \in 1..Len(DupGroups) : Distinct(DupGroups[i].files)
    /\ report.n_files = Cardinality(Paths)
    /\ \A p \in Paths : \E i \in 1..Len(report.files) : report.files[i].path = p

\* C30: no path occurs more than once in files[] and the member paths of
\* every DuplicateGroup are pairwise distinct, also when the tree holds a
\* symbolic link to a regular file of the tree: every underlying file yields
\* exactly one FileMeta and no file is a duplicate of itself.
C30_NoRepeatedPath == Done /\ WalkComplete => NoRepeatedPath

\* The same for the trees that hold no symbolic link.
C30_NoRepeatedPathNoLink == Done /\ WalkComplete /\ link = 0 => NoRepeatedPath

\* A scan of a tree with a link is over: the target of the link is twice in
\* files[] and is a duplicate of itself.
C30_TargetTwice ==
    /\ Done
    /\ link # 0
    /\ Cardinality({i \in 1..Len(report.files) : report.files[i].path = link}) = 2
    /\ \E i \in 1..Len(DupGroups) : DupGroups[i].files = <<link, link>>

(* ------------------------------------------------------------------ *)
(* The scanner of src/code/file_scanner.py                              *)
(* ------------------------------------------------------------------ *)

\* chunk_size of get_file_hash.  The source reads chunks of 65536 bytes
\* (file_scanner.py:113); the model scales the chunk down.
LegacyChunk == 2

\* A file of at most this many bytes is not hashed.  The source skips the
\* files of at most 1024 bytes (file_scanner.py:228); the model scales the
\* size down, below the size of a chunk as in the source.
SmallFileMax == 1

\* The least number of files between two progress updates of the walk.  The
\* source has 10 (file_scanner.py:200); the model scales it down.
MinUpdateInterval == 2

\* scan_directory is called at most this many times on one scanner object.
MaxScans == 2

\* self.total_files // 20
IntervalDivisor == 20

\* file_patterns['raw_sequencing']: the name ends with one of .fastq .fq .fastq.gz .fq.gz .sra .cram
RawSuffixes ==
    { <<46, 102, 97, 115, 116, 113>>,
      <<46, 102, 113>>,
      <<46, 102, 97, 115, 116, 113, 46, 103, 122>>,
      <<46, 102, 113, 46, 103, 122>>,
      <<46, 115, 114, 97>>,
      <<46, 99, 114, 97, 109>> }

\* file_patterns['aligned_data']: the name ends with one of .bam .sam .sorted.bam .markdup.bam
AlignedSuffixes ==
    { <<46, 98, 97, 109>>,
      <<46, 115, 97, 109>>,
      <<46, 115, 111, 114, 116, 101, 100, 46, 98, 97, 109>>,
      <<46, 109, 97, 114, 107, 100, 117, 112, 46, 98, 97, 109>> }

\* file_patterns['intermediate_files']: the name ends with one of .bai .csi .fai .dict .idx .bed .vcf.gz .vcf .gvcf .gvcf.gz .metrics .log .tmp
IntermediateSuffixes ==
    { <<46, 98, 97, 105>>,
      <<46, 99, 115, 105>>,
      <<46, 102, 97, 105>>,
      <<46, 100, 105, 99, 116>>,
      <<46, 105, 100, 120>>,
      <<46, 98, 101, 100>>,
      <<46, 118, 99, 102, 46, 103, 122>>,
      <<46, 118, 99, 102>>,
      <<46, 103, 118, 99, 102>>,
      <<46, 103, 118, 99, 102, 46, 103, 122>>,
      <<46, 109, 101, 116, 114, 105, 99, 115>>,
      <<46, 108, 111, 103>>,
      <<46, 116, 109, 112>> }

\* file_patterns['final_outputs']: the name ends with one of .vcf.gz .vcf .tsv .csv .xlsx .pdf .html
FinalSuffixes ==
    { <<46, 118, 99, 102, 46, 103, 122>>,
      <<46, 118, 99, 102>>,
      <<46, 116, 115, 118>>,
      <<46, 99, 115, 118>>,
      <<46, 120, 108, 115, 120>>,
      <<46, 112, 100, 102>>,
      <<46, 104, 116, 109, 108>> }

\* classify_file(filepath), for the name of the file.  Every regular
\* expression of file_patterns is of the form .*<word>.*<suffix>$ with a
\* suffix that the same or an earlier category also lists as an extension,
\* or is .*<suffix>$; so a name is of the first category one of whose
\* suffixes ends the lowercased name.
classify_file(name) ==
    LET filename == Lower(name)
        Hit(S) == \E x \in S : EndsWith(filename, x)
    IN IF Hit(RawSuffixes) THEN "raw_sequencing"
       ELSE IF Hit(AlignedSuffixes) THEN "aligned_data"
       ELSE IF Hit(IntermediateSuffixes) THEN "intermediate_files"
       ELSE IF Hit(FinalSuffixes) THEN "final_outputs"
       ELSE "unclassified"

\* str(n).encode(): the decimal digits of n
RECURSIVE Digits(_)
Digits(n) == IF n < 10 THEN <<48 + n>> ELSE Digits(n \div 10) \o <<48 + (n % 10)>>

\* The None that get_file_hash returns when a call fails.
LegacyNone == <<"None", <<>>>>

\* get_file_hash(filepath) of a file holding bytes; ok is FALSE when
\* getsize, open, seek or read raises.
get_file_hash(bytes, ok) ==
    LET file_size == Len(bytes)
        first_chunk == ReadAt(bytes, 0, LegacyChunk)
        middle_pos == file_size \div 2
        middle_chunk == ReadAt(bytes, middle_pos,
                               Min(LegacyChunk, file_size - middle_pos))
        last_chunk == IF file_size > LegacyChunk
                      THEN ReadAt(bytes, file_size - LegacyChunk, LegacyChunk)
                      ELSE <<>>
    IN IF ~ok THEN LegacyNone
       ELSE IF file_size <= LegacyChunk * 2
       THEN Md5(Digits(file_size) \o bytes)
       ELSE Md5(Digits(file_size) \o first_chunk \o middle_chunk \o last_chunk)

\* The tree the scanner scans: three files in the root.
LegacyPaths == {1, 2, 3}

\* "final_report.vcf"
NameFinalVcf == <<102, 105, 110, 97, 108, 95, 114, 101, 112, 111, 114, 116, 46, 118, 99, 102>>

\* The names of the files: path p is named LegacyNames[p].
LegacyNames == <<NameR1FastqGz, NameFinalVcf, NameNotes>>

\* n bytes 0
Zeros(n) == [i \in 1..n |-> 0]

\* bytes with the byte at index i (from 1) changed
Flip(bytes, i) == [bytes EXCEPT ![i] = 1]

\* The size of a file of more than two chunks.
BigLen == 2 * LegacyChunk + 2

\* The contents a file may hold: a file too small to be hashed, a file that
\* is hashed whole and a file of more than two chunks, each as it is and with
\* one byte changed: the first byte, the last byte, or the byte after the
\* first chunk.
LegacyContents ==
    { Zeros(SmallFileMax),
      Zeros(SmallFileMax + 1),
      Flip(Zeros(SmallFileMax + 1), SmallFileMax + 1),
      Zeros(BigLen),
      Flip(Zeros(BigLen), 1),
      Flip(Zeros(BigLen), LegacyChunk + 1),
      Flip(Zeros(BigLen), BigLen) }

\* file_info, without the fields computed from these (relative_path,
\* size_mb, directory)
file_info(p) ==
    [name |-> LegacyNames[p], path |-> p, size |-> Len(legacy_tree[p])]

\* files_processed = None
NoCount == 0 - 1

\* update_progress(phase, files_processed) up to the call of the callback:
\* the scanner object after it
update_progress(s, phase, files_processed) ==
    [s EXCEPT !.current_phase = IF phase # "" THEN phase ELSE @,
              !.processed_files = IF files_processed # NoCount
                                  THEN files_processed ELSE @]

\* round(processed_files / max(total_files, 1) * 100, 1), in tenths of a
\* percent
Percentage(processed_files, total_files) ==
    LET t == Max(total_files, 1) IN (2000 * processed_files + t) \div (2 * t)

\* progress_data of update_progress
progress_data(s) ==
    [phase |-> s.current_phase,
     total_files |-> s.total_files,
     processed_files |-> s.processed_files,
     percentage |-> Percentage(s.processed_files, s.total_files)]

\* if self.progress_callback: self.progress_callback(progress_data)
Deliver(evs, s) ==
    IF s.progress_callback THEN Append(evs, progress_data(s)) ELSE evs

\* sum(f['size'] for f in files)
RECURSIVE SumSizes(_)
SumSizes(files) ==
    IF files = <<>> THEN 0 ELSE Head(files).size + SumSizes(Tail(files))

\* duplicate_group of one entry of hash_to_files.items()
DuplicateGroup(entry) ==
    [hash |-> entry.k,
     files |-> entry.v,
     total_size |-> SumSizes(entry.v),
     duplicate_size |-> SumSizes(Tail(entry.v))]

\* for file_hash, files in hash_to_files.items(): if len(files) > 1: append
RECURSIVE DuplicateGroups(_)
DuplicateGroups(d) ==
    IF d = <<>> THEN <<>>
    ELSE (IF Len(Head(d).v) > 1 THEN <<DuplicateGroup(Head(d))>> ELSE <<>>)
         \o DuplicateGroups(Tail(d))

\* The indices I of a list in the order of list.sort(key=..., reverse=True)
\* for the keys k: descending, and stable.
RECURSIVE OrderDesc(_, _)
OrderDesc(k, I) ==
    IF I = {} THEN <<>>
    ELSE LET i == CHOOSE i \in I :
                    \A j \in I : k[j] < k[i] \/ (k[j] = k[i] /\ i <= j)
         IN <<i>> \o OrderDesc(k, I \ {i})

\* scan_results[category].sort(key=lambda x: x['size'], reverse=True)
SortBySize(xs) ==
    LET o == OrderDesc([i \in DOMAIN xs |-> xs[i].size], DOMAIN xs)
    IN [n \in 1..Len(xs) |-> xs[o[n]]]

\* self.duplicates.sort(key=lambda x: x['duplicate_size'], reverse=True)
SortByDuplicateSize(xs) ==
    LET o == OrderDesc([i \in DOMAIN xs |-> xs[i].duplicate_size], DOMAIN xs)
    IN [n \in 1..Len(xs) |-> xs[o[n]]]

\* sum(dup['duplicate_size'] for dup in self.duplicates)
RECURSIVE SumDuplicateSizes(_)
SumDuplicateSizes(dups) ==
    IF dups = <<>> THEN 0
    ELSE Head(dups).duplicate_size + SumDuplicateSizes(Tail(dups))

\* sum(self.file_sizes.values())
RECURSIVE SumOver(_, _)
SumOver(f, S) ==
    IF S = {} THEN 0
    ELSE LET c == CHOOSE c \in S : TRUE IN f[c] + SumOver(f, S \ {c})

\* get_summary(), without the fields computed from these (the sizes in GB
\* and the percentages)
get_summary(s) ==
    [categories |->
        [c \in CategorySet |->
            [count |-> Len(s.scan_results[c]),
             total_size |-> s.file_sizes[c],
             files |-> s.scan_results[c]]],
     duplicates |->
        [count |-> Len(s.duplicates),
         total_duplicate_size |-> SumDuplicateSizes(s.duplicates),
         groups |-> s.duplicates],
     total_size |-> SumOver(s.file_sizes, CategorySet)]

\* The variables the steps of this scanner leave alone.
non_legacy_vars == <<portable_vars, flask_vars, job_vars>>

\* scan_directory(root_path) up to the walk: the reset of the results, the
\* update "Counting files...", the count and the update "Analyzing files...".
LegacyStart ==
    /\ legacy_pc \in {"idle", "done"}
    /\ legacy_scans < MaxScans
    /\ LET s1 == [legacy EXCEPT !.scan_results = [c \in CategorySet |-> <<>>],
                                !.file_sizes = [c \in CategorySet |-> 0],
                                !.duplicates = <<>>,
                                !.file_hashes = <<>>]
           s2 == update_progress(s1, "Counting files...", NoCount)
           s3 == [s2 EXCEPT !.total_files = Cardinality(DOMAIN legacy_tree),
                            !.processed_files = 0]
           s4 == update_progress(s3, "Analyzing files...", NoCount)
       IN /\ legacy' = s4
          /\ legacy_events' = Deliver(Deliver(<<>>, s2), s4)
    /\ hash_to_files' = <<>>
    /\ legacy_todo' = DOMAIN legacy_tree
    /\ legacy_failed' = {}
    /\ legacy_summary' = "none"
    /\ legacy_scans' = legacy_scans + 1
    /\ legacy_pc' = "walk"
    /\ UNCHANGED <<non_legacy_vars, legacy_tree>>

\* One pass of `for file in files:`.  A failing getsize skips the file; a
\* failing call in get_file_hash leaves the file without a hash.
LegacyWalkFile ==
    /\ legacy_pc = "walk"
    /\ \E e \in legacy_todo :
       \E outcome \in {"ok"} \cup
                      (IF legacy_failed # {} THEN {}
                       ELSE {"getsize"} \cup
                            (IF Len(legacy_tree[e]) > SmallFileMax
                             THEN {"read"} ELSE {})) :
        LET s1 == [legacy EXCEPT !.processed_files = @ + 1]
            update_interval ==
                Max(MinUpdateInterval, s1.total_files \div IntervalDivisor)
            due == \/ s1.processed_files % update_interval = 0
                   \/ s1.processed_files = s1.total_files
            s2 == IF due THEN update_progress(s1, "Analyzing files...", NoCount)
                  ELSE s1
            info == file_info(e)
            category == classify_file(info.name)
            file_hash == get_file_hash(legacy_tree[e], outcome = "ok")
            hashed == info.size > SmallFileMax /\ file_hash # LegacyNone
        IN /\ legacy_todo' = legacy_todo \ {e}
           /\ legacy_events' = IF due THEN Deliver(legacy_events, s2)
                               ELSE legacy_events
           /\ legacy_failed' = IF outcome = "ok" THEN legacy_failed
                               ELSE legacy_failed \cup {e}
           /\ IF outcome = "getsize"
              THEN /\ legacy' = s2
                   /\ UNCHANGED hash_to_files
              ELSE /\ legacy' =
                        [s2 EXCEPT !.scan_results[category] = Append(@, info),
                                   !.file_sizes[category] = @ + info.size,
                                   !.file_hashes =
                                       IF hashed
                                       THEN Append(@, [k |-> e, v |-> file_hash])
                                       ELSE @]
                   /\ hash_to_files' =
                        IF hashed THEN DictAppend(hash_to_files, file_hash, info)
                        ELSE hash_to_files
    /\ UNCHANGED <<non_legacy_vars, legacy_tree, legacy_pc, legacy_summary,
                   legacy_scans>>

\* The rest of scan_directory: the update "Identifying duplicates...", the
\* duplicate groups, the update "Finalizing results...", the sorts, the
\* update "Scan completed" and the returned summary.
LegacyFinish ==
    /\ legacy_pc = "walk"
    /\ legacy_todo = {}
    /\ LET s1 == update_progress(legacy, "Identifying duplicates...", NoCount)
           s2 == [s1 EXCEPT !.duplicates = @ \o DuplicateGroups(hash_to_files)]
           s3 == update_progress(s2, "Finalizing results...", NoCount)
           s4 == [s3 EXCEPT !.scan_results =
                                [c \in CategorySet |-> SortBySize(@[c])],
                            !.duplicates = SortByDuplicateSize(@)]
           s5 == update_progress(s4, "Scan completed", s4.total_files)
       IN /\ legacy' = s5
          /\ legacy_events' = Deliver(Deliver(Deliver(legacy_events, s1), s3), s5)
          /\ legacy_summary' = get_summary(s5)
    /\ legacy_pc' = "done"
    /\ UNCHANGED <<non_legacy_vars, legacy_tree, legacy_todo, hash_to_files,
                   legacy_failed, legacy_scans>>

\* The portable scanner is not in use.
PortableIdle ==
    /\ tree = <<>>
    /\ names = <<>>
    /\ include_non_bio_mismatches = FALSE
    /\ link = 0
    /\ cb_raises = FALSE
    /\ fail_budget = 0
    /\ TypeInitScan
    /\ cb = FALSE
    /\ sn_in = NoSniff
    /\ sn_out = "none"

\* A new scanner on which set_progress_callback was called, and a tree of
\* three files or of none.
InitLegacy ==
    /\ PortableIdle
    /\ legacy_tree \in [LegacyPaths -> LegacyContents] \cup {<<>>}
    /\ legacy = [NewLegacyScanner EXCEPT !.progress_callback = TRUE]
    /\ legacy_pc = "idle"
    /\ legacy_todo = {}
    /\ hash_to_files = <<>>
    /\ legacy_events = <<>>
    /\ legacy_summary = "none"
    /\ legacy_scans = 0
    /\ legacy_failed = {}
    /\ FlaskIdle
    /\ JobIdle

NextLegacy == LegacyStart \/ LegacyWalkFile \/ LegacyFinish

SpecLegacy == InitLegacy /\ [][NextLegacy]_vars

(* ------------------------------------------------------------------ *)
(* Claims about the scanner of file_scanner.py                          *)
(* ------------------------------------------------------------------ *)

LegacyDone == legacy_pc = "done"

\* The phases in the order in which a scan goes through them.
PhaseRank(phase) ==
    CASE phase = "Counting files..." -> 1
      [] phase = "Analyzing files..." -> 2
      [] phase = "Identifying duplicates..." -> 3
      [] phase = "Finalizing results..." -> 4
      [] phase = "Scan completed" -> 5

\* The events of the running scan are in the order of the phases, none
\* counts more files than the tree holds, and the percentage never decreases.
ProgressOrdered ==
    /\ \A i \in 1..Len(legacy_events) :
          /\ legacy_events[i].processed_files <= legacy_events[i].total_files
          /\ legacy_events[i].processed_files <= Cardinality(DOMAIN legacy_tree)
    /\ \A i, j \in 1..Len(legacy_events) :
          i < j =>
            /\ PhaseRank(legacy_events[i].phase) <= PhaseRank(legacy_events[j].phase)
            /\ legacy_events[i].percentage <= legacy_events[j].percentage

\* The events of a scan that returned hold every phase, and the last one
\* counts every file of the tree.
ProgressComplete ==
    /\ {PhaseRank(legacy_events[i].phase) : i \in 1..Len(legacy_events)} = 1..5
    /\ legacy_events[Len(legacy_events)].processed_files = Cardinality(DOMAIN legacy_tree)
    /\ legacy_events[Len(legacy_events)].total_files = Cardinality(DOMAIN legacy_tree)

\* C25: for every scan_directory call with a callback, a second scan on the
\* same scanner object included, the events have their phases in the order
\* Counting, Analyzing, Identifying, Finalizing, Scan completed; every event
\* has processed_files <= total_files; the percentage never decreases within
\* the scan; and the final event has processed_files = total_files.
C25_LegacyProgress ==
    /\ ProgressOrdered
    /\ LegacyDone => ProgressComplete

\* The same for the first scan on a scanner object.
C25_FirstScanProgress ==
    legacy_scans <= 1 => C25_LegacyProgress

\* A second scan on the object is over; its first event shows the counts of
\* the scan before, 100 percent, and its second event 0 percent.
C25_SecondScanRegress ==
    /\ LegacyDone
    /\ legacy_scans = 2
    /\ legacy_events[1].phase = "Counting files..."
    /\ legacy_events[1].percentage = 1000
    /\ legacy_events[2].percentage = 0

\* The duplicate groups of the returned summary.
LegacyGroups == legacy_summary.duplicates.groups

\* The paths of the files of a group.
GroupPaths(g) == {g.files[i].path : i \in 1..Len(g.files)}

\* p and q are in one group.
SameGroup(p, q) ==
    \E i \in 1..Len(LegacyGroups) : {p, q} \subseteq GroupPaths(LegacyGroups[i])

\* The files of the tree whose getsize and reads succeeded.
Readable == DOMAIN legacy_tree \ legacy_failed

\* C26: two readable files larger than the small file size are in one
\* duplicate group if and only if their contents are identical, whatever
\* their size and wherever they differ, and a file of at most the small file
\* size is in no group.
C26_LegacyDuplicates ==
    LegacyDone =>
        /\ \A p, q \in Readable :
              (p # q /\ Len(legacy_tree[p]) > SmallFileMax
                     /\ Len(legacy_tree[q]) > SmallFileMax)
                 => (SameGroup(p, q) <=> legacy_tree[p] = legacy_tree[q])
        /\ \A p \in DOMAIN legacy_tree :
              Len(legacy_tree[p]) <= SmallFileMax
                 => \A i \in 1..Len(LegacyGroups) : p \notin GroupPaths(LegacyGroups[i])

\* The same without the files of more than two chunks.
C26_WholeFilesOnly ==
    (\A p \in DOMAIN legacy_tree : Len(legacy_tree[p]) <= 2 * LegacyChunk)
        => C26_LegacyDuplicates

\* Two files of more than two chunks that differ in the byte after the first
\* chunk are in one group.
C26_DifferentGrouped ==
    /\ LegacyDone
    /\ \E p, q \in Readable :
          /\ legacy_tree[p] # legacy_tree[q]
          /\ SameGroup(p, q)

(* ------------------------------------------------------------------ *)
(* The Flask application of src/code/app.py                             *)
(* ------------------------------------------------------------------ *)

\* `not scan_results`
NoResults(results) == DOMAIN results = {}

\* What scanner.scan_directory may return: the summary of a scan of an empty
\* directory and the summary of a scan of a directory of one file.
ScanSummaries ==
    { get_summary(NewLegacyScanner),
      get_summary([NewLegacyScanner EXCEPT
                      !.scan_results["unclassified"] =
                          <<[name |-> NameNotes, path |-> 1, size |-> 3]>>,
                      !.file_sizes["unclassified"] = 3]) }

\* The progress_data the scanner may hand to progress_callback.
CallbackData ==
    { [phase |-> "Counting files...", total_files |-> 0,
       processed_files |-> 0, percentage |-> 0],
      [phase |-> "Scan completed", total_files |-> 1,
       processed_files |-> 1, percentage |-> 1000] }

\* progress_callback(progress_data)
progress_callback(status, data) ==
    [status EXCEPT !.phase = data.phase,
                   !.total_files = data.total_files,
                   !.processed_files = data.processed_files,
                   !.progress = data.percentage]

\* The response of get_summary() that answers 404 without results.
get_summary_404(results) ==
    [endpoint |-> "summary", status |-> 404,
     body |-> [error |-> "No scan results available"]]

\* GET /api/summary: the response of get_summary(), without the sizes
get_summary_response(results) ==
    IF NoResults(results)
    THEN [endpoint |-> "summary", status |-> 200,
          body |-> [categories |-> [c \in CategorySet |-> [count |-> 0]],
                    duplicates |-> [count |-> 0],
                    scan_performed |-> FALSE]]
    ELSE [endpoint |-> "summary", status |-> 200,
          body |-> [categories |->
                        [c \in CategorySet |->
                            [count |-> results.categories[c].count]],
                    duplicates |-> [count |-> results.duplicates.count],
                    scan_performed |-> TRUE]]

\* GET /api/results: the response of get_results(), without the sizes in GB
\* and the percentages
get_results_response(results) ==
    IF NoResults(results)
    THEN [endpoint |-> "results", status |-> 200,
          body |-> [categories |->
                        [c \in CategorySet |->
                            [count |-> 0, total_size |-> 0, files |-> <<>>]],
                    duplicates |-> [count |-> 0, total_duplicate_size |-> 0,
                                    groups |-> <<>>]]]
    ELSE [endpoint |-> "results", status |-> 200,
          body |-> [categories |-> results.categories,
                    duplicates |-> results.duplicates]]

\* GET /api/duplicates: the response of get_duplicates()
get_duplicates_response(results) ==
    IF NoResults(results)
    THEN [endpoint |-> "duplicates", status |-> 200,
          body |-> [count |-> 0, total_duplicate_size |-> 0, groups |-> <<>>]]
    ELSE [endpoint |-> "duplicates", status |-> 200,
          body |-> results.duplicates]

\* The variables the steps of the application leave alone.
non_flask_vars == <<portable_vars, legacy_vars, job_vars>>

\* POST /api/scan, the whole handler start_scan(): the checks of the path,
\* the test of scan_status['scanning'], the start of the thread and the
\* response.
StartScan(r) ==
    /\ request[r] = "pending"
    /\ \E path \in {"", "missing", "file", "dir"} :
        IF path = ""
        THEN /\ request' = [request EXCEPT ![r] = "400 Directory path is required"]
             /\ UNCHANGED thread_pc
        ELSE IF path = "missing"
        THEN /\ request' = [request EXCEPT ![r] = "400 Directory does not exist"]
             /\ UNCHANGED thread_pc
        ELSE IF path = "file"
        THEN /\ request' = [request EXCEPT ![r] = "400 Path is not a directory"]
             /\ UNCHANGED thread_pc
        ELSE IF scan_status.scanning
        THEN /\ request' = [request EXCEPT ![r] = "409 Scan already in progress"]
             /\ UNCHANGED thread_pc
        ELSE /\ request' = [request EXCEPT ![r] = "200 Scan started"]
             /\ thread_pc' = [thread_pc EXCEPT ![r] = "started"]
    /\ UNCHANGED <<non_flask_vars, scan_status, scan_results, http, completed>>

\* run_scan() of the thread of request t: the first scan_status.update and
\* the call of scanner.scan_directory
ThreadInit(t) ==
    /\ thread_pc[t] = "started"
    /\ scan_status' = [scan_status EXCEPT !.scanning = TRUE,
                                          !.progress = 0,
                                          !.error = FALSE,
                                          !.phase = "Initializing...",
                                          !.total_files = 0,
                                          !.processed_files = 0]
    /\ thread_pc' = [thread_pc EXCEPT ![t] = "scanning"]
    /\ UNCHANGED <<non_flask_vars, scan_results, request, http, completed>>

\* The scanner calls progress_callback in the thread of the scan.
ThreadProgress(t) ==
    /\ thread_pc[t] = "scanning"
    /\ \E d \in CallbackData : scan_status' = progress_callback(scan_status, d)
    /\ UNCHANGED <<non_flask_vars, scan_results, thread_pc, request, http,
                   completed>>

\* scanner.scan_directory returns and scan_results = results
ThreadReturn(t) ==
    /\ thread_pc[t] = "scanning"
    /\ scan_results' \in ScanSummaries
    /\ completed' = TRUE
    /\ thread_pc' = [thread_pc EXCEPT ![t] = "returned"]
    /\ UNCHANGED <<non_flask_vars, scan_status, request, http>>

\* The scan_status.update that marks the scan as completed
ThreadComplete(t) ==
    /\ thread_pc[t] = "returned"
    /\ scan_status' = [scan_status EXCEPT !.scanning = FALSE,
                                          !.progress = 1000,
                                          !.phase = "Completed"]
    /\ thread_pc' = [thread_pc EXCEPT ![t] = "ended"]
    /\ UNCHANGED <<non_flask_vars, scan_results, request, http, completed>>

\* scanner.scan_directory raises: the except branch of run_scan()
ThreadFail(t) ==
    /\ thread_pc[t] = "scanning"
    /\ scan_status' = [scan_status EXCEPT !.scanning = FALSE,
                                          !.error = TRUE,
                                          !.phase = "Error"]
    /\ thread_pc' = [thread_pc EXCEPT ![t] = "ended"]
    /\ UNCHANGED <<non_flask_vars, scan_results, request, http, completed>>

\* GET /api/summary
GetSummary ==
    /\ http' = get_summary_response(scan_results)
    /\ UNCHANGED <<non_flask_vars, scan_status, scan_results, thread_pc,
                   request, completed>>

\* GET /api/results
GetResults ==
    /\ http' = get_results_response(scan_results)
    /\ UNCHANGED <<non_flask_vars, scan_status, scan_results, thread_pc,
                   request, completed>>

\* GET /api/duplicates
GetDuplicates ==
    /\ http' = get_duplicates_response(scan_results)
    /\ UNCHANGED <<non_flask_vars, scan_status, scan_results, thread_pc,
                   request, completed>>

\* The application after the import of the module.
InitFlask ==
    /\ PortableIdle
    /\ LegacyIdle
    /\ FlaskIdle
    /\ JobIdle

NextFlask ==
    \/ \E r \in Requests : StartScan(r)
    \/ \E t \in Requests : ThreadInit(t)
    \/ \E t \in Requests : ThreadProgress(t)
    \/ \E t \in Requests : ThreadReturn(t)
    \/ \E t \in Requests : ThreadComplete(t)
    \/ \E t \in Requests : ThreadFail(t)
    \/ GetSummary
    \/ GetResults
    \/ GetDuplicates

SpecFlask == InitFlask /\ [][NextFlask]_vars

(* ------------------------------------------------------------------ *)
(* Claims about the Flask application                                   *)
(* ------------------------------------------------------------------ *)

\* The body has the five categories with count 0 and no duplicates.
EmptyBody(resp) ==
    /\ resp.status = 200
    /\ IF resp.endpoint = "duplicates"
       THEN resp.body.count = 0 /\ resp.body.groups = <<>>
       ELSE /\ DOMAIN resp.body.categories = CategorySet
            /\ \A c \in CategorySet : resp.body.categories[c].count = 0
            /\ resp.body.duplicates.count = 0
    /\ resp.endpoint = "summary" => resp.body.scan_performed = FALSE
    /\ resp.endpoint = "results" =>
          /\ \A c \in CategorySet : resp.body.categories[c].files = <<>>
          /\ resp.body.duplicates.groups = <<>>

\* C24: as long as no scan has completed successfully since startup, GET
\* /api/summary, /api/results and /api/duplicates answer 200 with the empty
\* structure, also while a scan runs and after a scan failed; after a scan
\* completed successfully /api/summary reports scan_performed = true.
C24_EmptyUntilFirstScan ==
    [][(GetSummary \/ GetResults \/ GetDuplicates) =>
          /\ ~completed => EmptyBody(http')
          /\ (completed /\ GetSummary) =>
                /\ http'.status = 200
                /\ http'.body.scan_performed = TRUE]_vars

\* /api/summary answered with the empty structure while one scan has failed
\* and another one runs.
C24_Witness ==
    /\ ~completed
    /\ http.endpoint = "summary"
    /\ http.status = 200
    /\ http.body.scan_performed = FALSE
    /\ scan_status.scanning
    /\ \E t \in Requests : thread_pc[t] = "ended"
    /\ \E t \in Requests : thread_pc[t] = "scanning"

\* /api/summary answered scan_performed = true after the scan of an empty
\* directory.
C24_AfterEmptyScan ==
    /\ completed
    /\ http.endpoint = "summary"
    /\ http.body.scan_performed = TRUE
    /\ \A c \in CategorySet : http.body.categories[c].count = 0

\* The threads that were started and have not ended.
LiveThreads == {t \in Requests : thread_pc[t] \in {"started", "scanning", "returned"}}

\* C27: at most one scan thread runs at any time: a POST /api/scan that
\* arrives after another was accepted and before that scan has finished is
\* rejected and starts no thread, so no two scans write the scanner object
\* and scan_results at once.
C27_OneScanThread == Cardinality(LiveThreads) <= 1

\* Two threads are in scanner.scan_directory at once.
C27_TwoScans ==
    Cardinality({t \in Requests : thread_pc[t] = "scanning"}) >= 2

(* ------------------------------------------------------------------ *)
(* The FastAPI job of src/portable_seqmanager3/app/backend/main.py       *)
(* ------------------------------------------------------------------ *)

\* maxsize of the queue of a job.  The source has 256 slots (main.py:38);
\* the model scales the queue down.
QueueMax == 3

\* The scanner hands at most this many progress events to progress_cb: one
\* more than the queue holds.
MaxProgress == QueueMax + 1

\* The sentinel None that ends the stream.
Sentinel == [stage |-> "None", n |-> 0]

\* q.put_nowait(item) raises queue.Full
Full(queue) == Len(queue) >= QueueMax

\* The variables the steps of a job leave alone.
non_job_vars == <<portable_vars, legacy_vars, flask_vars>>

\* POST /api/scan/start: the queue and the entry of _jobs are made and the
\* thread is started.
ApiScanStart ==
    /\ job_pc = "none"
    /\ job_queue' = <<>>
    /\ job_result' = "None"
    /\ job_pc' = "scan"
    /\ UNCHANGED <<non_job_vars, progress_sent, enqueued, consumer_pc, received>>

\* progress_cb(msg), called by the scanner in the thread of the job:
\* q.put_nowait(msg), and a full queue drops the event.
ProgressCb ==
    /\ job_pc = "scan"
    /\ progress_sent < MaxProgress
    /\ progress_sent' = progress_sent + 1
    /\ LET msg == [stage |-> "progress", n |-> progress_sent + 1]
       IN IF Full(job_queue)
          THEN UNCHANGED <<job_queue, enqueued>>
          ELSE /\ job_queue' = Append(job_queue, msg)
               /\ enqueued' = Append(enqueued, msg)
    /\ UNCHANGED <<non_job_vars, job_pc, job_result, consumer_pc, received>>

\* sc.scan_directory returns and _jobs[job_id]["result"] = result
ScanReturns ==
    /\ job_pc = "scan"
    /\ job_result' = "result"
    /\ job_pc' = "put_done"
    /\ UNCHANGED <<non_job_vars, job_queue, progress_sent, enqueued, consumer_pc, received>>

\* sc.scan_directory raises an Exception
ScanRaises ==
    /\ job_pc = "scan"
    /\ job_pc' = "put_error"
    /\ UNCHANGED <<non_job_vars, job_queue, job_result, progress_sent, enqueued, consumer_pc,
                   received>>

\* q.put_nowait({"stage": "done", ...}); queue.Full is an Exception and
\* leads to the except branch.
PutDone ==
    /\ job_pc = "put_done"
    /\ IF Full(job_queue)
       THEN /\ job_pc' = "put_error"
            /\ UNCHANGED <<job_queue, enqueued>>
       ELSE /\ job_queue' = Append(job_queue, [stage |-> "done", n |-> 0])
            /\ enqueued' = Append(enqueued, [stage |-> "done", n |-> 0])
            /\ job_pc' = "finally"
    /\ UNCHANGED <<non_job_vars, job_result, progress_sent, consumer_pc, received>>

\* except Exception: q.put_nowait({"stage": "error", ...}); queue.Full
\* raised here leaves the handler, and the finally clause runs.
PutError ==
    /\ job_pc = "put_error"
    /\ IF Full(job_queue)
       THEN UNCHANGED <<job_queue, enqueued>>
       ELSE /\ job_queue' = Append(job_queue, [stage |-> "error", n |-> 0])
            /\ enqueued' = Append(enqueued, [stage |-> "error", n |-> 0])
    /\ job_pc' = "finally"
    /\ UNCHANGED <<non_job_vars, job_result, progress_sent, consumer_pc, received>>

\* finally: q.put_nowait(None); queue.Full raised here ends the thread.
PutSentinel ==
    /\ job_pc = "finally"
    /\ IF Full(job_queue)
       THEN UNCHANGED <<job_queue, enqueued>>
       ELSE /\ job_queue' = Append(job_queue, Sentinel)
            /\ enqueued' = Append(enqueued, Sentinel)
    /\ job_pc' = "exited"
    /\ UNCHANGED <<non_job_vars, job_result, progress_sent, consumer_pc, received>>

\* GET /api/scan/stream/{job_id} for the job: the generator starts.
ApiScanStream ==
    /\ job_pc # "none"
    /\ consumer_pc = "none"
    /\ consumer_pc' = "streaming"
    /\ UNCHANGED <<non_job_vars, job_queue, job_pc, job_result, progress_sent, enqueued,
                   received>>

\* One pass of the loop of gen(): q.get() blocks while the queue is empty;
\* None ends the stream.
StreamGet ==
    /\ consumer_pc = "streaming"
    /\ job_queue # <<>>
    /\ job_queue' = Tail(job_queue)
    /\ IF Head(job_queue) = Sentinel
       THEN /\ consumer_pc' = "closed"
            /\ UNCHANGED received
       ELSE /\ received' = Append(received, Head(job_queue))
            /\ UNCHANGED consumer_pc
    /\ UNCHANGED <<non_job_vars, job_pc, job_result, progress_sent, enqueued>>

\* The application after the import of the module: _jobs is empty.
InitJob ==
    /\ PortableIdle
    /\ LegacyIdle
    /\ FlaskIdle
    /\ JobIdle

NextJob ==
    \/ ApiScanStart
    \/ ProgressCb
    \/ ScanReturns
    \/ ScanRaises
    \/ PutDone
    \/ PutError
    \/ PutSentinel
    \/ ApiScanStream
    \/ StreamGet

SpecJob == InitJob /\ [][NextJob]_vars

\* The thread of the job and the consumer take their steps.
SpecJobFair == SpecJob /\ WF_vars(NextJob)

(* ------------------------------------------------------------------ *)
(* Claims about the job stream                                          *)
(* ------------------------------------------------------------------ *)

\* The indices of the terminal events among the items put on the queue.
Terminals == {i \in 1..Len(enqueued) : enqueued[i].stage \in {"done", "error"}}

\* The items put on the queue end with one terminal event and the sentinel.
EndsWithTerminal ==
    /\ Cardinality(Terminals) = 1
    /\ Len(enqueued) >= 2
    /\ enqueued[Len(enqueued)] = Sentinel
    /\ enqueued[Len(enqueued) - 1].stage \in {"done", "error"}

\* C28: for every job, however many progress events were emitted and
\* whether or not a consumer drained the queue during the scan, the thread
\* of the job puts exactly one terminal event (done or error) and then the
\* sentinel on the queue, so that a consumer of the stream terminates.
C28_StreamTerminates == job_pc = "exited" => EndsWithTerminal

\* The same as a property of the behaviours in which the thread and the
\* consumer take their steps: the stream of the consumer ends.
C28_ConsumerEnds == <>(consumer_pc = "closed")

\* The same for the jobs whose scan emitted at most two events less than the
\* queue holds.
C28_TerminatesWithRoom ==
    (job_pc = "exited" /\ progress_sent <= QueueMax - 2) => EndsWithTerminal

\* No step of the thread of the job waits for the queue: whatever the queue
\* holds, the thread can take its next step.
C28_NeverBlocks ==
    job_pc \in {"scan", "put_done", "put_error", "finally"} =>
        \/ ENABLED ScanReturns
        \/ ENABLED PutDone
        \/ ENABLED PutError
        \/ ENABLED PutSentinel

\* The thread of a job ended with a full queue of progress events: no
\* terminal event and no sentinel were put, and the consumer that drained
\* the queue waits in q.get().
C28_ConsumerStuck ==
    /\ job_pc = "exited"
    /\ job_result = "result"
    /\ Terminals = {}
    /\ Sentinel \notin {enqueued[i] : i \in 1..Len(enqueued)}
    /\ consumer_pc = "streaming"
    /\ job_queue = <<>>
    /\ Len(received) = QueueMax

=============================================================================
